---------------------------- MODULE Spec2Model ----------------------------
(***************************************************************************)
(* A model of migratorxpress-mcp: the version model, the capability        *)
(* registry and resolver (src/src/version.py), the parameter model         *)
(* (src/src/validators.py) and the command builder                         *)
(* (src/src/migratorxpress.py).                                            *)
(*                                                                         *)
(* Text that the program scans with regular expressions (version strings,  *)
(* probe output) is a sequence of one-character strings.  Command-line     *)
(* tokens are atomic strings.  A Python value whose type matters (a raw   *)
(* argument, a field of the parameter model) is a record naming its type.  *)
(***************************************************************************)
EXTENDS Integers, Sequences, FiniteSets, TLC

VARIABLES
    \* ---- MigratorXpressVersion (comparison and parsing) ----
    va, vb,              \* two versions being compared
    cmp,                 \* the results of the six comparisons of va with vb
    version_string,      \* the argument of MigratorXpressVersion.parse
    parsed,              \* what parse returned or raised
    \* ---- VersionDetector ----
    SORTED_VERSIONS,     \* the registry, sorted by version (_SORTED_VERSIONS)
    detection_done,      \* VersionDetector._detection_done
    detected_version,    \* VersionDetector._detected_version
    spawns,              \* the command lines of the probes spawned so far
    ncalls,              \* number of detect() calls / capabilities reads so far
    ret,                 \* what the last call returned
    first_ret,           \* what the first detect() run returned
    callers,             \* the threads inside detect(): where each one is
    \* ---- MigrationParams / CommandBuilder.build_command ----
    arguments,           \* the raw request
    params,              \* MigrationParams(**arguments): the model or the error
    commands,            \* what the build_command(params) calls so far returned
    \* ---- CommandBuilder.mask_sensitive / format_command_display ----
    heap,                \* the list objects: heap[r] is the content of list r
    command,             \* the list handed to mask_sensitive (0: none yet)
    masked,              \* the list mask_sensitive returned (0: none yet)
    display,             \* what format_command_display returned, masked and not
    \* ---- the server ----
    phase,               \* "startup", then "serving"
    env,                 \* the configuration read from the environment
    binary_file,         \* what MIGRATORXPRESS_PATH names on the file system
    command_builder,     \* the global command_builder: None, or the builder
    processes,           \* the processes spawned so far
    log_files,           \* the execution logs written so far
    request,             \* the tool call being answered: name and arguments
    response,            \* the text returned for it
    result,              \* what CommandBuilder.execute_command returned or raised
    auth_file            \* what file_path named when validate_auth_file looked

vars == <<va, vb, cmp, version_string, parsed,
          SORTED_VERSIONS, detection_done, detected_version, spawns, ncalls,
          ret, first_ret, callers,
          arguments, params, commands,
          heap, command, masked, display,
          phase, env, binary_file, command_builder, processes, log_files,
          request, response, result, auth_file>>

versionVars  == <<va, vb, cmp, version_string, parsed>>
detectorVars == <<SORTED_VERSIONS, detection_done, detected_version, spawns,
                  ncalls, ret, first_ret, callers>>
builderVars  == <<arguments, params, commands>>
displayVars  == <<heap, command, masked, display>>
serverVars   == <<phase, env, binary_file, command_builder, processes,
                  log_files, request, response, result, auth_file>>

\* Python's None
None == [type |-> "NoneType"]

-----------------------------------------------------------------------------
(* Bounds of the model.                                                    *)

\* version components are drawn from {0, 1, 6, 7, 24} and 0..MaxPart
MaxPart == 2
\* longest free-form text handed to parse
MaxTextLen == 7

-----------------------------------------------------------------------------
(* Characters.                                                             *)

DigitChars == <<"0", "1", "2", "3", "4", "5", "6", "7", "8", "9">>

UpperChars == <<"A", "B", "C", "D", "E", "F", "G", "H", "I", "J", "K", "L", "M",
                "N", "O", "P", "Q", "R", "S", "T", "U", "V", "W", "X", "Y", "Z">>

LowerChars == <<"a", "b", "c", "d", "e", "f", "g", "h", "i", "j", "k", "l", "m",
                "n", "o", "p", "q", "r", "s", "t", "u", "v", "w", "x", "y", "z">>

\* the product name the version probe looks for
ProductName == <<"m", "i", "g", "r", "a", "t", "o", "r", "x", "p", "r", "e", "s", "s">>

\* \d
IsDigit(c) == \E i \in 1..Len(DigitChars) : DigitChars[i] = c

\* \s, and what str.strip() removes
IsSpace(c) == c \in {" ", "\t", "\n", "\r"}

\* the case folding of re.IGNORECASE
Lower(c) ==
    IF \E i \in 1..Len(UpperChars) : UpperChars[i] = c
    THEN LowerChars[CHOOSE i \in 1..Len(UpperChars) : UpperChars[i] = c]
    ELSE c

DigitValue(c) == (CHOOSE i \in 1..Len(DigitChars) : DigitChars[i] = c) - 1

\* int(text) for a run of decimal digits
RECURSIVE int(_)
int(digits) ==
    IF Len(digits) = 0 THEN 0
    ELSE 10 * int(SubSeq(digits, 1, Len(digits) - 1)) + DigitValue(digits[Len(digits)])

\* the decimal digits of a non-negative integer, as the f-string writes them
RECURSIVE IntChars(_)
IntChars(n) ==
    IF n < 10 THEN <<DigitChars[n + 1]>>
    ELSE IntChars(n \div 10) \o <<DigitChars[(n % 10) + 1]>>

\* str.strip()
RECURSIVE strip(_)
strip(s) ==
    IF Len(s) = 0 THEN s
    ELSE IF IsSpace(s[1]) THEN strip(Tail(s))
    ELSE IF IsSpace(s[Len(s)]) THEN strip(SubSeq(s, 1, Len(s) - 1))
    ELSE s

-----------------------------------------------------------------------------
(* MigratorXpressVersion.                                                  *)

Version(major, minor, patch) == [major |-> major, minor |-> minor, patch |-> patch]

\* MigratorXpressVersion._tuple
tuple(v) == <<v.major, v.minor, v.patch>>

\* Python's < on two tuples of integers: the first position at which they
\* differ decides; with none, the shorter tuple is the smaller.
TupleLessWrongFields(s, t) == s[1] < t[1] \/ (s[1] = t[1] /\ s[2] < t[2])

TupleLess(s, t) ==
    LET n == IF Len(s) < Len(t) THEN Len(s) ELSE Len(t)
        differ == {i \in 1..n : s[i] # t[i]}
    IN  IF differ = {} THEN Len(s) < Len(t)
        ELSE LET k == CHOOSE i \in differ : \A j \in differ : i <= j
             IN  s[k] < t[k]

\* MigratorXpressVersion.__eq__ and __lt__
eq(a, b) == tuple(a) = tuple(b)
lt(a, b) == TupleLess(tuple(a), tuple(b))

\* what functools.total_ordering derives from __lt__ and __eq__
le(a, b) == lt(a, b) \/ eq(a, b)
gt(a, b) == ~lt(a, b) /\ ~eq(a, b)
ge(a, b) == ~lt(a, b)
ne(a, b) == ~eq(a, b)

\* a is lexicographically smaller than b on (major, minor, patch)
LexSmaller(a, b) ==
    \/ a.major < b.major
    \/ a.major = b.major /\ a.minor < b.minor
    \/ a.major = b.major /\ a.minor = b.minor /\ a.patch < b.patch

\* MigratorXpressVersion.__str__
str(v) == IntChars(v.major) \o <<".">> \o IntChars(v.minor) \o <<".">> \o IntChars(v.patch)

\* The end of the longest run of digits of s that starts at i (i - 1 when
\* s[i] is no digit): what a greedy \d+ consumes.
RECURSIVE DigitRunEnd(_, _)
DigitRunEnd(s, i) ==
    IF i <= Len(s) /\ IsDigit(s[i]) THEN DigitRunEnd(s, i + 1) ELSE i - 1

\* (\d+)\.(\d+)\.(\d+) matched at position i of s: the three groups, or
\* ok = FALSE.  A shorter first or second group can never be followed by
\* the dot, so the greedy groups are the longest runs.
MatchTripleAt(s, i) ==
    LET e1 == DigitRunEnd(s, i)
        e2 == DigitRunEnd(s, e1 + 2)
        e3 == DigitRunEnd(s, e2 + 2)
    IN  IF /\ e1 >= i
           /\ e1 + 1 <= Len(s) /\ s[e1 + 1] = "."
           /\ e2 >= e1 + 2
           /\ e2 + 1 <= Len(s) /\ s[e2 + 1] = "."
           /\ e3 >= e2 + 2
        THEN [ok |-> TRUE,
              groups |-> <<SubSeq(s, i, e1), SubSeq(s, e1 + 2, e2), SubSeq(s, e2 + 2, e3)>>]
        ELSE [ok |-> FALSE]

\* re.search(r"(\d+)\.(\d+)\.(\d+)", s): the match at the leftmost position
SearchTripleAnchored(s) == MatchTripleAt(s, 1)

SearchTriple(s) ==
    LET hits == {i \in 1..Len(s) : MatchTripleAt(s, i).ok}
    IN  IF hits = {} THEN [ok |-> FALSE]
        ELSE MatchTripleAt(s, CHOOSE i \in hits : \A j \in hits : i <= j)

\* MigratorXpressVersion.parse: the version, or the ValueError
parse(s) ==
    LET match == SearchTriple(strip(s))
    IN  IF ~match.ok THEN [ok |-> FALSE, error |-> "ValueError"]
        ELSE [ok |-> TRUE,
              version |-> Version(int(match.groups[1]), int(match.groups[2]),
                                  int(match.groups[3]))]


-----------------------------------------------------------------------------
(* VersionCapabilities and the registry.                                   *)

\* VersionCapabilities(...) with the defaults of the dataclass; registry_key
\* tells the entries of a registry apart
VersionCapabilities(key, sources, targets, dbs, tasks, fks, modes, loads, flag) ==
    [registry_key |-> key,
     source_databases |-> sources, target_databases |-> targets,
     migration_db_types |-> dbs, tasks |-> tasks, fk_modes |-> fks,
     migration_db_modes |-> modes, load_modes |-> loads,
     supports_no_banner |-> flag, supports_version_flag |-> flag,
     supports_fasttransfer |-> flag, supports_license |-> flag]

\* the capabilities returned for an empty registry
EmptyCapabilities == VersionCapabilities(<<>>, {}, {}, {}, {}, {}, {}, {}, FALSE)

\* the value of a registry entry: the capabilities of release 0.6.24
RegistryEntry(key) ==
    VersionCapabilities(key,
        {"oracle", "postgresql", "sqlserver", "netezza"},
        {"postgresql", "sqlserver"},
        {"sqlserver"},
        {"translate", "create", "transfer", "diff", "copy_pk", "copy_ak", "copy_fk", "all"},
        {"trusted", "untrusted", "disabled"},
        {"preserve", "truncate", "drop"},
        {"truncate", "append"},
        TRUE)

\* sorted(pairs, key=lambda x: x[0]): ascending by version, using <
RECURSIVE sorted(_)
sorted(pairs) ==
    IF pairs = {} THEN <<>>
    ELSE LET least == CHOOSE x \in pairs : \A y \in pairs : ~lt(y[1], x[1])
         IN  <<least>> \o sorted(pairs \ {least})

\* _SORTED_VERSIONS for a registry with the given keys
SortedVersions(keys) == sorted({<<parse(k).version, RegistryEntry(k)>> : k \in keys})

-----------------------------------------------------------------------------
(* VersionDetector.                                                        *)

\* the probe's combined output is scanned for
\* migratorxpress\s+(\d+)\.(\d+)\.(\d+), ignoring case
RECURSIVE SpaceRunEnd(_, _)
SpaceRunEnd(s, i) ==
    IF i <= Len(s) /\ IsSpace(s[i]) THEN SpaceRunEnd(s, i + 1) ELSE i - 1

\* the literal product name at position i of s
NameAtCaseSensitive(s, i) ==
    /\ i + Len(ProductName) - 1 <= Len(s)
    /\ \A k \in 1..Len(ProductName) : s[i + k - 1] = ProductName[k]

NameAt(s, i) ==
    /\ i + Len(ProductName) - 1 <= Len(s)
    /\ \A k \in 1..Len(ProductName) : Lower(s[i + k - 1]) = ProductName[k]

MatchProductAt(s, i) ==
    IF ~NameAt(s, i) THEN [ok |-> FALSE]
    ELSE LET w == SpaceRunEnd(s, i + Len(ProductName))
         IN  IF w < i + Len(ProductName) THEN [ok |-> FALSE]
             ELSE MatchTripleAt(s, w + 1)

\* re.search(r"migratorxpress\s+(\d+)\.(\d+)\.(\d+)", s, re.IGNORECASE)
SearchProduct(s) ==
    LET hits == {i \in 1..Len(s) : MatchProductAt(s, i).ok}
    IN  IF hits = {} THEN [ok |-> FALSE]
        ELSE MatchProductAt(s, CHOOSE i \in hits : \A j \in hits : i <= j)

\* the classes of an exception raised by subprocess.run, most derived first
ExceptionClasses(kind) ==
    CASE kind = "TimeoutExpired"     -> {"TimeoutExpired", "SubprocessError", "Exception"}
      [] kind = "FileNotFoundError"  -> {"FileNotFoundError", "OSError", "Exception"}
      [] kind = "PermissionError"    -> {"PermissionError", "OSError", "Exception"}
      [] kind = "UnicodeDecodeError" -> {"UnicodeDecodeError", "ValueError", "Exception"}
      [] kind = "UnicodeEncodeError" -> {"UnicodeEncodeError", "ValueError", "Exception"}
      [] kind = "OSError"            -> {"OSError", "Exception"}
      [] kind = "MigratorXpressError" -> {"MigratorXpressError", "Exception"}

\* the except clauses of detect(), in order
DetectExceptClausesNarrow == <<"TimeoutExpired", "FileNotFoundError">>

DetectExceptClauses == <<"TimeoutExpired", "FileNotFoundError", "Exception">>

\* the exception is caught by one of the clauses
Caught(kind, clauses) ==
    \E i \in 1..Len(clauses) : clauses[i] \in ExceptionClasses(kind)

\* self._detection_done = True, before the probe runs (matched: whether
\* the probe is going to yield a version)
MarkDoneOnSuccessOnly(matched) == matched

MarkDone(matched) == TRUE

\* the command line of the version probe
ProbeArgv(binary_path) == <<binary_path, "--version", "--no_banner">>

\* detect() on a detector in state (done, version) when a probe, if one is
\* spawned, ends as outcome: the new state, the value returned, whether
\* detect raised instead, and whether a probe was spawned.
detect(done, version, outcome) ==
    IF done
    THEN [done |-> done, version |-> version, value |-> version,
          raised |-> FALSE, spawned |-> FALSE]
    ELSE IF outcome.kind = "completed"
    THEN LET output == strip(outcome.stdout \o outcome.stderr)
             match == SearchProduct(output)
             found == IF match.ok
                      THEN Version(int(match.groups[1]), int(match.groups[2]),
                                   int(match.groups[3]))
                      ELSE version
         IN  [done |-> MarkDone(match.ok), version |-> found, value |-> found,
              raised |-> FALSE, spawned |-> TRUE]
    ELSE IF Caught(outcome.kind, DetectExceptClauses)
    THEN [done |-> MarkDone(FALSE), version |-> version, value |-> version,
          raised |-> FALSE, spawned |-> TRUE]
    ELSE [done |-> MarkDone(FALSE), version |-> version, value |-> None,
          raised |-> TRUE, spawned |-> TRUE]

\* ver <= detected, the test of the resolution loop
AtMostStrict(ver, detected) == lt(ver, detected)

AtMost(ver, detected) == le(ver, detected)

\* the loop of capabilities over _SORTED_VERSIONS from index i on, with
\* best so far: it stops at the first entry above the detected version
RECURSIVE ScanBest(_, _, _, _)
ScanBest(versions, detected, i, best) ==
    IF i > Len(versions) THEN best
    ELSE IF AtMost(versions[i][1], detected)
         THEN ScanBest(versions, detected, i + 1, versions[i][2])
         ELSE best

\* the fallback of capabilities: the latest known entry
LatestFirst(versions) == versions[1][2]

Latest(versions) == versions[Len(versions)][2]

\* the capabilities property, once detection has run
resolve(versions, detected) ==
    IF versions = <<>> THEN EmptyCapabilities
    ELSE IF detected = None THEN Latest(versions)
    ELSE LET best == ScanBest(versions, detected, 1, None)
         IN  IF best # None THEN best ELSE Latest(versions)

-----------------------------------------------------------------------------
(* Python values of the request and of the parameter model.                *)

PyStr(s) == [type |-> "str", v |-> s]
PyInt(n) == [type |-> "int", v |-> n]
PyBool(b) == [type |-> "bool", v |-> b]
PyList(l) == [type |-> "list", v |-> l]
\* a float with one decimal, held as its number of tenths
PyFloat(t) == [type |-> "float", tenths |-> t]
\* a member of a str-valued Enum; v is its .value
PyEnum(s) == [type |-> "enum", v |-> s]

\* the truth value of x in `if x:`
Truthy(x) ==
    CASE x.type = "NoneType" -> FALSE
      [] x.type = "str"      -> x.v # ""
      [] x.type = "list"     -> x.v # <<>>
      [] x.type = "int"      -> x.v # 0
      [] x.type = "float"    -> x.tenths # 0
      [] x.type = "bool"     -> x.v
      [] x.type = "enum"     -> x.v # ""

\* str(x) of an int or a float, as build_command stringifies numbers
pystr(x) ==
    CASE x.type = "int"   -> ToString(x.v)
      [] x.type = "float" ->
            LET a == IF x.tenths < 0 THEN 0 - x.tenths ELSE x.tenths
            IN  (IF x.tenths < 0 THEN "-" ELSE "") \o ToString(a \div 10) \o "."
                    \o ToString(a % 10)

-----------------------------------------------------------------------------
(* MigrationParams.                                                        *)

\* TaskType
TaskType == {"translate", "create", "transfer", "diff", "copy_pk", "copy_ak",
             "copy_fk", "all"}

MigrationDbMode == {"preserve", "truncate", "drop"}
LoadMode == {"truncate", "append"}
FkMode == {"trusted", "untrusted", "disabled"}
LogLevel == {"DEBUG", "INFO", "WARNING", "ERROR", "CRITICAL"}

\* the fields of MigrationParams by declared type
RequiredStrFields ==
    {"auth_file", "source_db_auth_id", "source_db_name", "target_db_auth_id",
     "target_db_name", "migration_db_auth_id"}

OptionalStrFields ==
    {"source_schema_name", "target_schema_name", "resume", "fasttransfer_dir_path",
     "compute_nbrows", "drop_tables_if_exists", "include_tables", "exclude_tables",
     "log_dir", "license", "license_file"}

OptionalListFields == {"task_list", "forced_int_id_prefixes", "forced_int_id_suffixes"}

OptionalIntFields ==
    {"fasttransfer_p", "ft_large_table_th", "n_jobs", "cci_threshold", "aci_threshold",
     "min_rows", "max_rows"}

OptionalFloatFields == {"profiling_sample_pc", "p_query", "min_sample_pc_profile"}

BoolFields == {"force", "basic_diff", "without_xid", "no_banner", "no_progress", "quiet_ft"}

EnumFields == {"migration_db_mode", "load_mode", "fk_mode", "log_level"}

EnumMembers(field) ==
    CASE field = "migration_db_mode" -> MigrationDbMode
      [] field = "load_mode"         -> LoadMode
      [] field = "fk_mode"           -> FkMode
      [] field = "log_level"         -> LogLevel

Fields == RequiredStrFields \cup OptionalStrFields \cup OptionalListFields
            \cup OptionalIntFields \cup OptionalFloatFields \cup BoolFields \cup EnumFields

Fail(loc, kind) == [ok |-> FALSE, loc |-> loc, error |-> kind]
Pass(value) == [ok |-> TRUE, value |-> value]

\* the validation of one field of the request against its declared type:
\* the field's value in the model, or the error reported for the field
ValidateField(args, field) ==
    LET given == field \in DOMAIN args
        x == IF given THEN args[field] ELSE None
    IN  IF field \in RequiredStrFields
        THEN IF ~given THEN Fail(field, "missing")
             ELSE IF x.type = "str" THEN Pass(x) ELSE Fail(field, "string_type")
        ELSE IF field \in BoolFields
        THEN IF ~given THEN Pass(PyBool(FALSE))
             ELSE IF x.type = "bool" THEN Pass(x) ELSE Fail(field, "bool_type")
        ELSE IF x.type = "NoneType" THEN Pass(None)
        ELSE IF field \in OptionalStrFields
        THEN IF x.type = "str" THEN Pass(x) ELSE Fail(field, "string_type")
        ELSE IF field \in OptionalListFields
        THEN IF x.type = "list" THEN Pass(x) ELSE Fail(field, "list_type")
        ELSE IF field \in OptionalIntFields
        THEN IF x.type = "int" THEN Pass(x) ELSE Fail(field, "int_type")
        ELSE IF field \in OptionalFloatFields
        THEN IF x.type = "float" THEN Pass(x)
             ELSE IF x.type = "int" THEN Pass(PyFloat(10 * x.v))
             ELSE Fail(field, "float_type")
        ELSE IF x.type = "str" /\ x.v \in EnumMembers(field) THEN Pass(PyEnum(x.v))
             ELSE Fail(field, "enum")

\* MigrationParams.validate_task_list_values: "ok", or the error raised
validate_task_list_values_no_all_check(self) ==
    IF self.task_list # None /\ \E i \in 1..Len(self.task_list.v) :
                                    self.task_list.v[i] \notin TaskType
    THEN "Invalid task" ELSE "ok"

validate_task_list_values(self) ==
    IF self.task_list # None
    THEN IF \E i \in 1..Len(self.task_list.v) : self.task_list.v[i] \notin TaskType
         THEN "Invalid task"
         ELSE IF (\E i \in 1..Len(self.task_list.v) : self.task_list.v[i] = "all")
                    /\ Len(self.task_list.v) > 1
         THEN "Task 'all' cannot be combined with other tasks."
         ELSE "ok"
    ELSE "ok"

\* the fields validate_string_booleans looks at, in its order
StringBooleanFields == <<"compute_nbrows", "drop_tables_if_exists">>

\* value not in ("true", "false")
NotBooleanLiteralAnyCase(s) == s \notin {"true", "false", "True", "False", "TRUE", "FALSE"}

NotBooleanLiteral(s) == s \notin {"true", "false"}

\* MigrationParams.validate_string_booleans
validate_string_booleans(self) ==
    LET bad == {i \in 1..Len(StringBooleanFields) :
                   /\ self[StringBooleanFields[i]] # None
                   /\ NotBooleanLiteral(self[StringBooleanFields[i]].v)}
    IN  IF bad = {} THEN "ok"
        ELSE "'" \o StringBooleanFields[CHOOSE i \in bad : \A j \in bad : i <= j]
                 \o "' must be 'true' or 'false'"

\* MigrationParams.validate_license_mutual_exclusivity
validate_license_mutual_exclusivity_truthy(self) ==
    IF Truthy(self.license) /\ Truthy(self.license_file)
    THEN "license and license_file are mutually exclusive." ELSE "ok"

validate_license_mutual_exclusivity(self) ==
    IF self.license # None /\ self.license_file # None
    THEN "license and license_file are mutually exclusive." ELSE "ok"

\* MigrationParams(**args): the validated model, or the errors of the
\* ValidationError.  Field errors are collected; the model validators run
\* after the fields passed, in the order of their definition, and the
\* first one that raises ends the validation.
MigrationParams(args) ==
    LET checked == [f \in Fields |-> ValidateField(args, f)]
        failed == {f \in Fields : ~checked[f].ok}
        self == [f \in Fields |-> checked[f].value]
        v1 == validate_task_list_values(self)
        v2 == validate_string_booleans(self)
        v3 == validate_license_mutual_exclusivity(self)
    IN  IF failed # {}
        THEN [ok |-> FALSE, errors |-> {[loc |-> f, msg |-> checked[f].error] : f \in failed}]
        ELSE IF v1 # "ok" THEN [ok |-> FALSE, errors |-> {[loc |-> "", msg |-> v1]}]
        ELSE IF v2 # "ok" THEN [ok |-> FALSE, errors |-> {[loc |-> "", msg |-> v2]}]
        ELSE IF v3 # "ok" THEN [ok |-> FALSE, errors |-> {[loc |-> "", msg |-> v3]}]
        ELSE [ok |-> TRUE, model |-> self]

-----------------------------------------------------------------------------
(* CommandBuilder.build_command.                                           *)

\* A token of the command under construction, with the statement that
\* appended it: the field it was emitted for, and whether it was appended
\* as the flag or as a value.  The command itself is the tok components.
Token(tok, field, role) == [tok |-> tok, field |-> field, role |-> role]

\* the statements of build_command in their order: the field each one
\* emits and the flag it emits it with
StatementsIdsBeforeNames ==
    <<
       <<"auth_file", "-a">>,
       <<"source_db_auth_id", "--source_db_auth_id">>,
       <<"target_db_auth_id", "--target_db_auth_id">>,
       <<"source_db_name", "--source_db_name">>,
       <<"target_db_name", "--target_db_name">>,
       <<"migration_db_auth_id", "--migration_db_auth_id">>,
       <<"source_schema_name", "--source_schema_name">>,
       <<"target_schema_name", "--target_schema_name">>,
       <<"task_list", "--task_list">>,
       <<"resume", "-r">>,
       <<"fasttransfer_dir_path", "--fasttransfer_dir_path">>,
       <<"fasttransfer_p", "-p">>,
       <<"ft_large_table_th", "--ft_large_table_th">>,
       <<"n_jobs", "--n_jobs">>,
       <<"cci_threshold", "--cci_threshold">>,
       <<"aci_threshold", "--aci_threshold">>,
       <<"migration_db_mode", "--migration_db_mode">>,
       <<"compute_nbrows", "--compute_nbrows">>,
       <<"drop_tables_if_exists", "--drop_tables_if_exists">>,
       <<"load_mode", "--load_mode">>,
       <<"include_tables", "-i">>,
       <<"exclude_tables", "-e">>,
       <<"min_rows", "-min">>,
       <<"max_rows", "-max">>,
       <<"forced_int_id_prefixes", "--forced_int_id_prefixes">>,
       <<"forced_int_id_suffixes", "--forced_int_id_suffixes">>,
       <<"profiling_sample_pc", "--profiling_sample_pc">>,
       <<"p_query", "--p_query">>,
       <<"min_sample_pc_profile", "--min_sample_pc_profile">>,
       <<"force", "-f">>,
       <<"basic_diff", "--basic_diff">>,
       <<"without_xid", "--without_xid">>,
       <<"fk_mode", "--fk_mode">>,
       <<"log_level", "--log_level">>,
       <<"log_dir", "--log_dir">>,
       <<"no_banner", "--no_banner">>,
       <<"no_progress", "--no_progress">>,
       <<"quiet_ft", "--quiet_ft">>,
       <<"license", "--license">>,
       <<"license_file", "--license_file">>
    >>

Statements ==
    <<
       <<"auth_file", "-a">>,
       <<"source_db_auth_id", "--source_db_auth_id">>,
       <<"source_db_name", "--source_db_name">>,
       <<"target_db_auth_id", "--target_db_auth_id">>,
       <<"target_db_name", "--target_db_name">>,
       <<"migration_db_auth_id", "--migration_db_auth_id">>,
       <<"source_schema_name", "--source_schema_name">>,
       <<"target_schema_name", "--target_schema_name">>,
       <<"task_list", "--task_list">>,
       <<"resume", "-r">>,
       <<"fasttransfer_dir_path", "--fasttransfer_dir_path">>,
       <<"fasttransfer_p", "-p">>,
       <<"ft_large_table_th", "--ft_large_table_th">>,
       <<"n_jobs", "--n_jobs">>,
       <<"cci_threshold", "--cci_threshold">>,
       <<"aci_threshold", "--aci_threshold">>,
       <<"migration_db_mode", "--migration_db_mode">>,
       <<"compute_nbrows", "--compute_nbrows">>,
       <<"drop_tables_if_exists", "--drop_tables_if_exists">>,
       <<"load_mode", "--load_mode">>,
       <<"include_tables", "-i">>,
       <<"exclude_tables", "-e">>,
       <<"min_rows", "-min">>,
       <<"max_rows", "-max">>,
       <<"forced_int_id_prefixes", "--forced_int_id_prefixes">>,
       <<"forced_int_id_suffixes", "--forced_int_id_suffixes">>,
       <<"profiling_sample_pc", "--profiling_sample_pc">>,
       <<"p_query", "--p_query">>,
       <<"min_sample_pc_profile", "--min_sample_pc_profile">>,
       <<"force", "-f">>,
       <<"basic_diff", "--basic_diff">>,
       <<"without_xid", "--without_xid">>,
       <<"fk_mode", "--fk_mode">>,
       <<"log_level", "--log_level">>,
       <<"log_dir", "--log_dir">>,
       <<"no_banner", "--no_banner">>,
       <<"no_progress", "--no_progress">>,
       <<"quiet_ft", "--quiet_ft">>,
       <<"license", "--license">>,
       <<"license_file", "--license_file">>
    >>

\* how a statement tests its field and what it appends
EmittedAlways == RequiredStrFields
EmittedIfTruthy ==
    {"source_schema_name", "target_schema_name", "resume", "fasttransfer_dir_path",
     "include_tables", "exclude_tables", "log_dir", "license", "license_file"}
    \cup EnumFields
EmittedIfNotNone == {"compute_nbrows", "drop_tables_if_exists"}
EmittedIfNotNoneAsStr == OptionalIntFields \cup OptionalFloatFields
EmittedAsFlagOnly == BoolFields

\* cmd.extend([flag, value])
Extend(field, flag, value) == <<Token(flag, field, "flag"), Token(value, field, "value")>>

\* ",".join(values)
RECURSIVE CommaJoin(_)
CommaJoin(values) ==
    IF Len(values) = 1 THEN values[1]
    ELSE values[1] \o "," \o CommaJoin(Tail(values))

\* cmd.append(flag); cmd.extend(values)
AppendCommaJoined(field, flag, values) ==
    <<Token(flag, field, "flag"), Token(CommaJoin(values), field, "value")>>

AppendThenExtend(field, flag, values) ==
    <<Token(flag, field, "flag")>> \o [i \in 1..Len(values) |-> Token(values[i], field, "value")]

\* the test `x is not None` of a statement
IsNotNoneTruthy(x) == Truthy(x)

IsNotNone(x) == x # None

\* what the statement for field appends to cmd
Emit(p, field, flag) ==
    LET x == p[field]
    IN  IF field \in EmittedAlways THEN Extend(field, flag, x.v)
        ELSE IF field \in EmittedIfTruthy
        THEN IF Truthy(x) THEN Extend(field, flag, x.v) ELSE <<>>
        ELSE IF field \in EmittedIfNotNone
        THEN IF IsNotNone(x) THEN Extend(field, flag, x.v) ELSE <<>>
        ELSE IF field \in EmittedIfNotNoneAsStr
        THEN IF IsNotNone(x) THEN Extend(field, flag, pystr(x)) ELSE <<>>
        ELSE IF field \in EmittedAsFlagOnly
        THEN IF Truthy(x) THEN <<Token(flag, field, "flag")>> ELSE <<>>
        ELSE IF Truthy(x) THEN AppendThenExtend(field, flag, x.v) ELSE <<>>

\* cmd after the statements from the i-th on have run
RECURSIVE RunStatements(_, _, _)
RunStatements(cmd, p, i) ==
    IF i > Len(Statements) THEN cmd
    ELSE RunStatements(cmd \o Emit(p, Statements[i][1], Statements[i][2]),
                       p, i + 1)

\* build_command(params), each token with the statement that appended it
build_tagged(binary_path, p) ==
    RunStatements(<<Token(binary_path, "binary_path", "binary")>>, p, 1)

\* the list of strings of a built command
Tokens(cmd) == [i \in 1..Len(cmd) |-> cmd[i].tok]

\* CommandBuilder.build_command
build_command(binary_path, p) == Tokens(build_tagged(binary_path, p))

-----------------------------------------------------------------------------
(* Inputs of the version model.                                            *)

Components == {0, 1, 6, 7, 24} \cup (0..MaxPart)

Versions == {Version(a, b, c) : a, b, c \in Components}

\* every sequence over S of length at most n
SeqsUpTo(S, n) == UNION {[1..k -> S] : k \in 0..n}

\* the product name in four letter cases
NameCases ==
    { ProductName,
      <<"M", "i", "g", "r", "a", "t", "o", "r", "X", "p", "r", "e", "s", "s">>,
      <<"M", "I", "G", "R", "A", "T", "O", "R", "X", "P", "R", "E", "S", "S">>,
      <<"m", "I", "g", "R", "a", "T", "o", "R", "x", "P", "r", "E", "s", "S">> }

\* what may stand before the number: nothing, or the name and a blank
Prefixes == {<<>>} \cup {n \o <<" ">> : n \in NameCases}

\* surrounding whitespace: <<leading, trailing>>
Surroundings == { <<(<<>>), (<<>>)>>, <<(<<" ", " ">>), (<<" ", " ">>)>>,
                  <<(<<>>), (<<"\n">>)>>, <<(<<"\t">>), (<<>>)>> }

\* a version string made of surrounding whitespace, a prefix and X.Y.Z
Compose(ws, prefix, v) == ws[1] \o prefix \o str(v) \o ws[2]

ComposedStrings ==
    {[text |-> Compose(ws, prefix, v), version |-> v] :
        ws \in Surroundings, prefix \in Prefixes, v \in Versions}

\* strings without a three-part number, from the tests
NoVersionHere == <<"n", "o", " ", "v", "e", "r", "s", "i", "o", "n", " ", "h", "e", "r", "e">>

FreeTexts == SeqsUpTo({"1", "2", ".", " "}, MaxTextLen) \cup {NoVersionHere, <<"0", ".", "6">>}

ParseInputs == {c.text : c \in ComposedStrings} \cup FreeTexts

\* s holds a three-part dotted number: two dots with only digits, and at
\* least one, between them, a digit before the first and one after the second
HoldsTriple(s) ==
    \E p, q \in 1..Len(s) :
        /\ 1 < p /\ p + 1 < q /\ q < Len(s)
        /\ s[p] = "." /\ s[q] = "."
        /\ IsDigit(s[p - 1]) /\ IsDigit(s[q + 1])
        /\ \A k \in (p + 1)..(q - 1) : IsDigit(s[k])

-----------------------------------------------------------------------------
(* Specifications of the version model.  The variables of the other        *)
(* components rest at None.                                                *)

DetectorIdle ==
    /\ SORTED_VERSIONS = <<>> /\ detection_done = FALSE /\ detected_version = None
    /\ spawns = 0 /\ ncalls = 0 /\ ret = None /\ first_ret = None
    /\ callers = <<>>

BuilderIdle == arguments = None /\ params = None /\ commands = <<>>

DisplayIdle == heap = <<>> /\ command = 0 /\ masked = 0 /\ display = None

ServerIdle ==
    /\ phase = "idle" /\ env = None /\ binary_file = None /\ command_builder = None
    /\ processes = <<>> /\ log_files = <<>>
    /\ request = None /\ response = None /\ result = None /\ auth_file = None

VersionIdle ==
    /\ va = None /\ vb = None /\ cmp = None
    /\ version_string = None /\ parsed = None

\* ---- comparing two versions ----
InitOrder ==
    /\ va \in Versions /\ vb \in Versions /\ cmp = None
    /\ version_string = None /\ parsed = None
    /\ DetectorIdle /\ BuilderIdle /\ DisplayIdle /\ ServerIdle

\* evaluate va < vb, va == vb, va > vb, va <= vb, va >= vb, va != vb
Compare ==
    /\ cmp = None
    /\ cmp' = [lt |-> lt(va, vb), eq |-> eq(va, vb), gt |-> gt(va, vb),
               le |-> le(va, vb), ge |-> ge(va, vb), ne |-> ne(va, vb)]
    /\ UNCHANGED <<va, vb, version_string, parsed>>
    /\ UNCHANGED detectorVars /\ UNCHANGED builderVars
    /\ UNCHANGED displayVars /\ UNCHANGED serverVars

NextOrder == Compare

SpecOrder == InitOrder /\ [][NextOrder]_vars

\* ---- parsing a version string ----
InitParse ==
    /\ version_string \in ParseInputs /\ parsed = None
    /\ va = None /\ vb = None /\ cmp = None
    /\ DetectorIdle /\ BuilderIdle /\ DisplayIdle /\ ServerIdle

\* MigratorXpressVersion.parse(version_string)
Parse ==
    /\ parsed = None
    /\ parsed' = parse(version_string)
    /\ UNCHANGED <<va, vb, cmp, version_string>>
    /\ UNCHANGED detectorVars /\ UNCHANGED builderVars
    /\ UNCHANGED displayVars /\ UNCHANGED serverVars

NextParse == Parse

SpecParse == InitParse /\ [][NextParse]_vars

-----------------------------------------------------------------------------
(* Specification of the version detector: one VersionDetector instance,    *)
(* a registry, and callers that call detect() and read capabilities.       *)

\* calls made on the detector in one behaviour
MaxCalls == 3

\* the binary path the detector and the builder are constructed with
BinaryPath == "/fake/binary"

Chars_Unknown == <<"U", "n", "k", "n", "o", "w", "n", " ", "o", "u", "t", "p", "u", "t">>

\* what a completed probe may have written: <<stdout, stderr>>
ProbeOutputs ==
    \* the version line on stdout
    {<<ProductName \o <<" ">> \o str(v) \o <<"\n">>, <<>>>> : v \in Versions}
    \* in another letter case, after a banner line, with other whitespace
    \cup {<<Chars_Unknown \o <<"\n">> \o n \o <<" ", "\t">> \o str(v), <<>>>> :
            n \in NameCases, v \in {Version(0, 6, 24), Version(1, 0, 0)}}
    \* on stderr, or split between the two streams
    \cup {<<(<<>>), ProductName \o <<" ">> \o str(Version(0, 6, 24))>>,
          <<ProductName \o <<" ">>, str(Version(0, 7, 0)) \o <<"\n">> >>}
    \* nothing that matches
    \cup {<<Chars_Unknown, (<<>>)>>,
          <<(<<>>), (<<>>)>>,
          <<str(Version(0, 6, 24)), (<<>>)>>,
          <<ProductName \o str(Version(0, 6, 24)), (<<>>)>>,
          <<ProductName \o <<" ">> \o <<"0", ".", "6">>, (<<>>)>>,
          <<ProductName \o <<" ", "v">> \o str(Version(0, 6, 24)), (<<>>)>>,
          <<ProductName, <<" ">> >>}

\* how a probe may end
ProbeOutcomes ==
    {[kind |-> k] : k \in {"TimeoutExpired", "FileNotFoundError", "PermissionError",
                           "UnicodeDecodeError"}}
    \cup {[kind |-> "completed", stdout |-> o[1], stderr |-> o[2]] : o \in ProbeOutputs}

\* the keys of VERSION_REGISTRY: the shipped registry holds "0.6.24" alone;
\* the other registries are those a later release may ship
RegistryPool == {Version(0, 1, 0), Version(0, 6, 24), Version(0, 7, 0)}

Registries ==
    {{str(Version(0, 6, 24))}} \cup {{str(v) : v \in R} : R \in SUBSET RegistryPool}

InitDetector ==
    /\ \E keys \in Registries : SORTED_VERSIONS = SortedVersions(keys)
    /\ detection_done = FALSE
    /\ detected_version = None
    /\ spawns = <<>>
    /\ ncalls = 0
    /\ ret = None
    /\ first_ret = None
    /\ callers = <<>>
    /\ VersionIdle /\ BuilderIdle /\ DisplayIdle /\ ServerIdle

\* the state after one run of detect(), and the record of a spawned probe
Detected(r, outcome) ==
    /\ detection_done' = r.done
    /\ detected_version' = r.version
    /\ spawns' = IF r.spawned THEN Append(spawns, ProbeArgv(BinaryPath)) ELSE spawns
    /\ first_ret' = IF r.spawned /\ first_ret = None
                    THEN [call |-> ncalls + 1, outcome |-> outcome,
                          value |-> r.value, raised |-> r.raised]
                    ELSE first_ret
    /\ ncalls' = ncalls + 1

\* a probe ends in some way only if one is spawned, which detect() does
\* only while detection is not marked done
PossibleOutcomes == IF detection_done THEN {[kind |-> "no probe"]} ELSE ProbeOutcomes

\* a caller calls detect()
Detect ==
    /\ ncalls < MaxCalls
    /\ \E outcome \in PossibleOutcomes :
          LET r == detect(detection_done, detected_version, outcome)
          IN  /\ Detected(r, outcome)
              /\ ret' = [op |-> "detect", value |-> r.value, raised |-> r.raised,
                         spawned |-> r.spawned]
    /\ UNCHANGED <<SORTED_VERSIONS, callers>>
    /\ UNCHANGED versionVars /\ UNCHANGED builderVars
    /\ UNCHANGED displayVars /\ UNCHANGED serverVars

\* a caller reads the capabilities property
Capabilities ==
    /\ ncalls < MaxCalls
    /\ \E outcome \in PossibleOutcomes :
          LET r == IF ~detection_done
                   THEN detect(detection_done, detected_version, outcome)
                   ELSE [done |-> detection_done, version |-> detected_version,
                         value |-> detected_version, raised |-> FALSE, spawned |-> FALSE]
          IN  /\ Detected(r, outcome)
              /\ ret' = [op |-> "capabilities",
                         value |-> IF r.raised THEN None
                                   ELSE resolve(SORTED_VERSIONS, r.version),
                         raised |-> r.raised, spawned |-> r.spawned]
    /\ UNCHANGED <<SORTED_VERSIONS, callers>>
    /\ UNCHANGED versionVars /\ UNCHANGED builderVars
    /\ UNCHANGED displayVars /\ UNCHANGED serverVars

NextDetector == Detect \/ Capabilities

SpecDetector == InitDetector /\ [][NextDetector]_vars

-----------------------------------------------------------------------------
(* C1: the probe is spawned once and its result is cached.                 *)

\* C1: over any sequence of detect() calls and capabilities reads on one
\* detector, the probe [binary, --version, --no_banner] has been spawned
\* exactly once as soon as one call was made, by the first call; every
\* detect() after it spawns nothing and returns the value the first run
\* returned and cached, also when that value is None.
C1_ProbedOnce ==
    /\ ncalls = 0 => spawns = <<>> /\ first_ret = None
    /\ ncalls >= 1 =>
          /\ spawns = <<(<<BinaryPath, "--version", "--no_banner">>)>>
          /\ first_ret # None /\ first_ret.call = 1
          /\ detection_done
          /\ detected_version = first_ret.value
          /\ ret.op = "detect" => ret.value = first_ret.value
          /\ ncalls >= 2 => ~ret.spawned

\* a second detect() after a first detection that failed and cached None
C1_Witness ==
    /\ ncalls >= 2 /\ ret.op = "detect" /\ ret.value = None
    /\ first_ret.outcome.kind = "TimeoutExpired"

\* a detect() after a first detection, by a capabilities read, that succeeded
C1_WitnessCached ==
    /\ ncalls = MaxCalls /\ ret.op = "detect" /\ ret.value = Version(0, 6, 24)

-----------------------------------------------------------------------------
(* C2: detect() never raises.                                              *)

\* s holds the pattern 'migratorxpress X.Y.Z': the product name in any
\* letter case, at least one whitespace character, and a three-part number
HoldsProductPattern(s) ==
    \E i \in 1..Len(s) :
        /\ NameAt(s, i)
        /\ \E j \in (i + Len(ProductName) + 1)..Len(s) :
              /\ \A k \in (i + Len(ProductName))..(j - 1) : IsSpace(s[k])
              /\ \E p \in (j + 1)..Len(s) :
                    /\ s[p] = "."
                    /\ \A k \in j..(p - 1) : IsDigit(s[k])
                    /\ \E q \in (p + 2)..(Len(s) - 1) :
                          /\ s[q] = "."
                          /\ \A k \in (p + 1)..(q - 1) : IsDigit(s[k])
                          /\ IsDigit(s[q + 1])

\* the probe did not yield a version: it timed out, the binary was not
\* found, another exception occurred, or the output holds no pattern
ProbeFailed(outcome) ==
    \/ outcome.kind # "completed"
    \/ ~HoldsProductPattern(outcome.stdout \o outcome.stderr)

\* C2: no detect() call and no capabilities read raises; when the probe
\* timed out, the binary was not found, another exception occurred or the
\* combined output holds no 'migratorxpress X.Y.Z' pattern, detect()
\* returns None and the cached version is and stays None.
C2_NeverRaises ==
    ncalls >= 1 =>
        /\ ~ret.raised /\ ~first_ret.raised
        /\ ProbeFailed(first_ret.outcome) =>
              /\ first_ret.value = None
              /\ detected_version = None
              /\ ret.op = "detect" => ret.value = None

\* detect() has returned after a probe that hit an exception other than a
\* timeout or a missing binary
C2_Witness ==
    /\ ncalls >= 1 /\ ret.op = "detect" /\ ret.spawned
    /\ first_ret.outcome.kind = "PermissionError" /\ ret.value = None

\* detect() has returned after a probe that completed without the pattern
C2_WitnessNoMatch ==
    /\ ncalls >= 1 /\ ret.op = "detect" /\ ret.spawned
    /\ first_ret.outcome.kind = "completed"
    /\ first_ret.outcome.stdout = str(Version(0, 6, 24))
    /\ ret.value = None

-----------------------------------------------------------------------------
(* C3: capability resolution.                                              *)

\* the versions of the registry
RegistryVersions == {SORTED_VERSIONS[i][1] : i \in 1..Len(SORTED_VERSIONS)}

\* the entry of registry version v
EntryOf(v) ==
    LET i == CHOOSE k \in 1..Len(SORTED_VERSIONS) : SORTED_VERSIONS[k][1] = v
    IN  SORTED_VERSIONS[i][2]

\* the greatest version of a non-empty set, lexicographically
Greatest(S) == CHOOSE v \in S : \A w \in S : w = v \/ LexSmaller(w, v)

\* C3: with a non-empty registry, a capabilities read returns the entry of
\* the greatest registry version that is <= the detected version, and the
\* entry of the greatest registry version of all when nothing was detected
\* or the detected version is older than every entry; so it returns one of
\* the registry's entries.
C3_Resolution ==
    (ncalls >= 1 /\ ret.op = "capabilities" /\ SORTED_VERSIONS # <<>>) =>
        LET below == {v \in RegistryVersions :
                         detected_version # None /\
                         (v = detected_version \/ LexSmaller(v, detected_version))}
        IN  /\ ret.value = IF below # {} THEN EntryOf(Greatest(below))
                           ELSE EntryOf(Greatest(RegistryVersions))
            /\ \E v \in RegistryVersions : ret.value = EntryOf(v)

\* a version between two registry entries resolved to the lower one
C3_Witness ==
    /\ ncalls >= 1 /\ ret.op = "capabilities" /\ Len(SORTED_VERSIONS) = 3
    /\ detected_version = Version(0, 2, 0)
    /\ ret.value.registry_key = str(Version(0, 1, 0))

\* a version older than the shipped registry's only entry fell back to it
C3_WitnessOlder ==
    /\ ncalls >= 1 /\ ret.op = "capabilities" /\ Len(SORTED_VERSIONS) = 1
    /\ detected_version = Version(0, 0, 0)
    /\ ret.value.registry_key = str(Version(0, 6, 24))

\* a failed detection fell back to the latest of three entries
C3_WitnessUndetected ==
    /\ ncalls >= 1 /\ ret.op = "capabilities" /\ Len(SORTED_VERSIONS) = 3
    /\ detected_version = None
    /\ ret.value.registry_key = str(Version(0, 7, 0))

-----------------------------------------------------------------------------
(* Specifications of the parameter model and the command builder: a        *)
(* request is validated, and the command of an accepted request is built.  *)

\* longest task list of a request
MaxTasks == 2
\* optional fields set in a request to build_command
MaxOptional == 2
\* build_command calls on one parameter set
MaxBuilds == 2

\* the minimal parameter set
MinimalArguments ==
    [f \in RequiredStrFields |->
        CASE f = "auth_file"            -> PyStr("auth.json")
          [] f = "source_db_auth_id"    -> PyStr("s")
          [] f = "source_db_name"       -> PyStr("d1")
          [] f = "target_db_auth_id"    -> PyStr("t")
          [] f = "target_db_name"       -> PyStr("d2")
          [] f = "migration_db_auth_id" -> PyStr("m")]

\* the requests of R, and each of them with field set to one of values
With(R, field, values) == R \cup {r @@ (field :> v) : r \in R, v \in values}

\* ---- requests that exercise the validators ----
TaskInputs == TaskType \cup {"bogus"}

TaskLists == {None} \cup {PyList(l) : l \in SeqsUpTo(TaskInputs, MaxTasks)}

ValidationRequests ==
    With(With(With(With(With({MinimalArguments},
        "task_list", TaskLists),
        "compute_nbrows", {PyStr(x) : x \in {"true", "false", "yes", "True", ""}}),
        "drop_tables_if_exists", {None, PyStr("false"), PyStr("FALSE")}),
        "license", {PyStr(""), PyStr("KEY-123")}),
        "license_file", {PyStr(""), PyStr("/etc/mx.lic")})

\* ---- requests that exercise build_command ----
BuildValues(field) ==
    CASE field = "source_schema_name"     -> {PyStr(""), PyStr("dbo")}
      [] field = "target_schema_name"     -> {PyStr(""), PyStr("public")}
      [] field = "task_list"              ->
            {PyList(<<>>), PyList(<<"all">>), PyList(<<"translate", "create", "transfer">>),
             PyList(<<"diff", "diff">>)}
      [] field = "resume"                 -> {PyStr(""), PyStr("RUN_1")}
      [] field = "fasttransfer_dir_path"  -> {PyStr(""), PyStr("/opt/fast transfer")}
      [] field = "fasttransfer_p"         -> {PyInt(0), PyInt(4)}
      [] field = "ft_large_table_th"      -> {PyInt(0), PyInt(100)}
      [] field = "n_jobs"                 -> {PyInt(0), PyInt(8)}
      [] field = "cci_threshold"          -> {PyInt(0), PyInt(5)}
      [] field = "aci_threshold"          -> {PyInt(0), PyInt(-1)}
      [] field = "migration_db_mode"      -> {PyStr(m) : m \in {"preserve", "drop", "bogus"}}
      [] field = "compute_nbrows"         -> {PyStr("true"), PyStr("false")}
      [] field = "drop_tables_if_exists"  -> {PyStr("true"), PyStr("false")}
      [] field = "load_mode"              -> {PyStr(m) : m \in LoadMode}
      [] field = "include_tables"         -> {PyStr(""), PyStr("SALES_*")}
      [] field = "exclude_tables"         -> {PyStr(""), PyStr("-tmp*")}
      [] field = "min_rows"               -> {PyInt(0), PyInt(10)}
      [] field = "max_rows"               -> {PyInt(0), PyInt(1000)}
      [] field = "forced_int_id_prefixes" ->
            {PyList(<<>>), PyList(<<"ID_">>), PyList(<<"ID_", "PK_">>)}
      [] field = "forced_int_id_suffixes" ->
            {PyList(<<>>), PyList(<<"_ID", "_KEY", "_ID">>)}
      [] field = "profiling_sample_pc"    -> {PyFloat(0), PyFloat(25), PyInt(1)}
      [] field = "p_query"                -> {PyInt(0), PyFloat(5)}
      [] field = "min_sample_pc_profile"  -> {PyFloat(0), PyFloat(10)}
      [] field = "fk_mode"                -> {PyStr(m) : m \in {"trusted", "disabled"}}
      [] field = "log_level"              -> {PyStr(m) : m \in {"DEBUG", "CRITICAL"}}
      [] field = "log_dir"                -> {PyStr(""), PyStr("/var/log/mx")}
      [] field = "license"                -> {PyStr(""), PyStr("KEY-123")}
      [] field = "license_file"           -> {PyStr(""), PyStr("/etc/mx.lic")}
      [] field = "force"                  -> {PyBool(TRUE), PyBool(FALSE)}
      [] OTHER                            -> {PyBool(TRUE)}

OptionalFields == Fields \ RequiredStrFields

\* the minimal parameter set with at most n optional fields set
RECURSIVE RequestsWith(_)
RequestsWith(n) ==
    IF n = 0 THEN {MinimalArguments}
    ELSE LET R == RequestsWith(n - 1)
         IN  R \cup {r @@ (f :> v) : r \in R, <<f, v>> \in
                        {<<g, w>> \in OptionalFields \X UNION {BuildValues(g) : g \in OptionalFields} :
                            w \in BuildValues(g)}}

BuildRequests == RequestsWith(MaxOptional)

InitRequest(requests) ==
    /\ arguments \in requests
    /\ params = None
    /\ commands = <<>>
    /\ VersionIdle /\ DetectorIdle /\ DisplayIdle /\ ServerIdle

\* params = MigrationParams(**arguments)
Validate ==
    /\ params = None
    /\ params' = MigrationParams(arguments)
    /\ UNCHANGED <<arguments, commands>>
    /\ UNCHANGED versionVars /\ UNCHANGED detectorVars
    /\ UNCHANGED displayVars /\ UNCHANGED serverVars

\* command = command_builder.build_command(params)
Build ==
    /\ params # None /\ params.ok
    /\ Len(commands) < MaxBuilds
    /\ commands' = Append(commands, build_tagged(BinaryPath, params.model))
    /\ UNCHANGED <<arguments, params>>
    /\ UNCHANGED versionVars /\ UNCHANGED detectorVars
    /\ UNCHANGED displayVars /\ UNCHANGED serverVars

NextBuilder == Validate \/ Build

InitParams == InitRequest(ValidationRequests)
SpecParams == InitParams /\ [][NextBuilder]_vars

InitBuild == InitRequest(BuildRequests)
SpecBuild == InitBuild /\ [][NextBuilder]_vars

-----------------------------------------------------------------------------
(* C6, C7, C8: the validators of the parameter model.                      *)

\* the value given for a field of the request, None when there is none
Given(field) == IF field \in DOMAIN arguments THEN arguments[field] ELSE None

\* the eight known tasks
KnownTasks == {"translate", "create", "transfer", "diff", "copy_pk", "copy_ak",
               "copy_fk", "all"}

\* the task list of the request holds known tasks only, and 'all' at most
\* on its own
TaskListFine ==
    Given("task_list") # None =>
        LET l == Given("task_list").v
        IN  /\ \A i \in 1..Len(l) : l[i] \in KnownTasks
            /\ (\E i \in 1..Len(l) : l[i] = "all") => Len(l) = 1

\* a string-boolean field of the request is absent or a literal
StringBooleanFine(field) ==
    Given(field) = None \/ Given(field).v = "true" \/ Given(field).v = "false"

\* at most one of license and license_file is set in the request
LicenseFine == Given("license") = None \/ Given("license_file") = None

\* C6: a request is accepted only if every entry of its task list is one of
\* the eight known tasks and 'all' does not occur beside another task; a
\* list with 'all' and another task is rejected, a list with an unknown
\* task is rejected, and ['all'] alone (like any list of known tasks
\* without 'all') is accepted in an otherwise valid request.
C6_TaskList ==
    (params # None /\ Given("task_list") # None) =>
        LET l == Given("task_list").v
            known == \A i \in 1..Len(l) : l[i] \in KnownTasks
            hasAll == \E i \in 1..Len(l) : l[i] = "all"
            hasOther == \E i \in 1..Len(l) : l[i] # "all"
            restFine == /\ StringBooleanFine("compute_nbrows")
                        /\ StringBooleanFine("drop_tables_if_exists")
                        /\ LicenseFine
        IN  /\ params.ok => known /\ ~(hasAll /\ hasOther)
            /\ (hasAll /\ hasOther) => ~params.ok
            /\ ~known => ~params.ok
            /\ (l = <<"all">> /\ restFine) => params.ok
            /\ (known /\ ~hasAll /\ restFine) => params.ok

\* a request with the task list ['all', 'create'] has been rejected
C6_Witness ==
    /\ params # None /\ ~params.ok
    /\ Given("task_list") = PyList(<<"all", "create">>)
    /\ Given("compute_nbrows") = None /\ Given("license") = None

\* a request with the task list ['all'] has been accepted
C6_WitnessAll ==
    params # None /\ params.ok /\ Given("task_list") = PyList(<<"all">>)

\* C7: for compute_nbrows and for drop_tables_if_exists, a request is
\* accepted only if the field is absent or is exactly 'true' or 'false',
\* every other value is rejected, and an otherwise valid request whose two
\* fields are absent or such literals is accepted.
C7_StringBooleans ==
    params # None =>
        /\ \A f \in {"compute_nbrows", "drop_tables_if_exists"} :
              /\ params.ok => StringBooleanFine(f)
              /\ ~StringBooleanFine(f) => ~params.ok
        /\ ( /\ StringBooleanFine("compute_nbrows")
             /\ StringBooleanFine("drop_tables_if_exists")
             /\ TaskListFine /\ LicenseFine ) => params.ok

\* a request whose only flaw is compute_nbrows = 'True' has been rejected
C7_Witness ==
    /\ params # None /\ ~params.ok
    /\ Given("compute_nbrows") = PyStr("True")
    /\ Given("drop_tables_if_exists") = PyStr("false")
    /\ TaskListFine /\ LicenseFine

\* a request with compute_nbrows = 'true' has been accepted
C7_WitnessTrue ==
    params # None /\ params.ok /\ Given("compute_nbrows") = PyStr("true")

\* the built command holds a flag token emitted for the field
EmitsFlag(cmd, field) ==
    \E i \in 1..Len(cmd) : cmd[i].field = field /\ cmd[i].role = "flag"

\* C8: a request with both license and license_file set is rejected; an
\* otherwise valid request with exactly one of them set is accepted; and no
\* built command holds both a --license flag emitted for license and a
\* --license_file flag emitted for license_file.
C8_LicenseExclusive ==
    params # None =>
        /\ ~LicenseFine => ~params.ok
        /\ ( /\ (Given("license") = None) # (Given("license_file") = None)
             /\ TaskListFine
             /\ StringBooleanFine("compute_nbrows")
             /\ StringBooleanFine("drop_tables_if_exists") ) => params.ok
        /\ \A k \in 1..Len(commands) :
              /\ ~(EmitsFlag(commands[k], "license") /\ EmitsFlag(commands[k], "license_file"))
              /\ ~( (\E i \in 1..Len(commands[k]) : commands[k][i].tok = "--license")
                    /\ (\E i \in 1..Len(commands[k]) : commands[k][i].tok = "--license_file") )

\* a request with a license key and an empty license_file has been rejected
C8_Witness ==
    /\ params # None /\ ~params.ok
    /\ Given("license") = PyStr("KEY-123") /\ Given("license_file") = PyStr("")
    /\ TaskListFine
    /\ StringBooleanFine("compute_nbrows") /\ StringBooleanFine("drop_tables_if_exists")

\* the command of a request with a license file alone has been built
C8_WitnessBuilt ==
    /\ commands # <<>> /\ Given("license") = None
    /\ EmitsFlag(commands[1], "license_file")

-----------------------------------------------------------------------------
(* C9, C10: build_command.                                                 *)

\* the flags in the order in which the specification lists them
FlagOrder ==
    <<"-a", "--source_db_auth_id", "--source_db_name", "--target_db_auth_id",
      "--target_db_name", "--migration_db_auth_id", "--source_schema_name",
      "--target_schema_name", "--task_list", "-r", "--fasttransfer_dir_path", "-p",
      "--ft_large_table_th", "--n_jobs", "--cci_threshold", "--aci_threshold",
      "--migration_db_mode", "--compute_nbrows", "--drop_tables_if_exists",
      "--load_mode", "-i", "-e", "-min", "-max", "--forced_int_id_prefixes",
      "--forced_int_id_suffixes", "--profiling_sample_pc", "--p_query",
      "--min_sample_pc_profile", "-f", "--basic_diff", "--without_xid", "--fk_mode",
      "--log_level", "--log_dir", "--no_banner", "--no_progress", "--quiet_ft",
      "--license", "--license_file">>

\* the place of a flag in that order, 0 for a token that is no flag
FlagIndex(tok) ==
    IF \E i \in 1..Len(FlagOrder) : FlagOrder[i] = tok
    THEN CHOOSE i \in 1..Len(FlagOrder) : FlagOrder[i] = tok
    ELSE 0

IsFlag(t) == t.role = "flag"

\* C9: every command built starts with the binary path, followed directly
\* by -a (there is no subcommand token); the minimal parameter set builds
\* exactly [binary, -a, auth.json, --source_db_auth_id, s, --source_db_name,
\* d1, --target_db_auth_id, t, --target_db_name, d2, --migration_db_auth_id,
\* m]; the flags emitted appear in the order in which the specification
\* lists them; and every call on the same parameter set returns the same
\* tokens.
C9_FixedOrder ==
    commands # <<>> =>
        LET toks == Tokens(commands[1])
            flags == SelectSeq(commands[1], IsFlag)
            index == [i \in 1..Len(flags) |-> FlagIndex(flags[i].tok)]
        IN  /\ toks[1] = BinaryPath
            /\ toks[2] = "-a"
            /\ arguments = MinimalArguments =>
                  toks = <<BinaryPath, "-a", "auth.json", "--source_db_auth_id", "s",
                           "--source_db_name", "d1", "--target_db_auth_id", "t",
                           "--target_db_name", "d2", "--migration_db_auth_id", "m">>
            /\ \A i \in 1..Len(flags) : index[i] > 0
            /\ \A i, j \in 1..Len(flags) : i < j => index[i] < index[j]
            /\ \A k \in 1..Len(commands) : Tokens(commands[k]) = toks

\* the minimal parameter set has been built twice
C9_Witness ==
    /\ Len(commands) = 2 /\ arguments = MinimalArguments

\* a command with two optional fields has been built
C9_WitnessOptional ==
    /\ commands # <<>>
    /\ EmitsFlag(commands[1], "task_list") /\ EmitsFlag(commands[1], "no_banner")

MultiValueFlags ==
    [f \in {"task_list", "forced_int_id_prefixes", "forced_int_id_suffixes"} |->
        CASE f = "task_list"              -> "--task_list"
          [] f = "forced_int_id_prefixes" -> "--forced_int_id_prefixes"
          [] f = "forced_int_id_suffixes" -> "--forced_int_id_suffixes"]

\* C10: for task_list, forced_int_id_prefixes and forced_int_id_suffixes,
\* when the field is set to a non-empty list the built command holds the
\* field's flag exactly once, directly followed by the values of the list,
\* one token each and in the order of the list.
C10_MultiValue ==
    \A k \in 1..Len(commands) : \A f \in DOMAIN MultiValueFlags :
        LET x == params.model[f]
            toks == Tokens(commands[k])
            at == {i \in 1..Len(toks) : toks[i] = MultiValueFlags[f]}
        IN  (x # None /\ x.v # <<>>) =>
                /\ Cardinality(at) = 1
                /\ \A i \in at :
                      /\ i + Len(x.v) <= Len(toks)
                      /\ SubSeq(toks, i + 1, i + Len(x.v)) = x.v

\* a command with a task list of three tasks and another field has been built
C10_Witness ==
    /\ commands # <<>>
    /\ params.model.task_list = PyList(<<"translate", "create", "transfer">>)
    /\ EmitsFlag(commands[1], "log_dir")

\* a command with three suffixes, one of them twice, has been built
C10_WitnessSuffixes ==
    /\ commands # <<>>
    /\ params.model.forced_int_id_suffixes = PyList(<<"_ID", "_KEY", "_ID">>)

-----------------------------------------------------------------------------
(* C4: versions are totally ordered lexicographically.                     *)

OrderChain == <<Version(0, 1, 0), Version(0, 6, 0), Version(0, 6, 24),
                Version(0, 7, 0), Version(1, 0, 0)>>

Bit(b) == IF b THEN 1 ELSE 0

\* C4: once two versions a and b are compared, exactly one of a < b, a == b,
\* a > b holds; a < b holds iff a's triple is lexicographically smaller than
\* b's; and for the chain (0,1,0) < (0,6,0) < (0,6,24) < (0,7,0) < (1,0,0)
\* every pairwise comparison (<, <=, !=, and >, >= the other way round)
\* holds as the chain orders the two.
C4_TotalOrder ==
    cmp # None =>
        /\ Bit(cmp.lt) + Bit(cmp.eq) + Bit(cmp.gt) = 1
        /\ cmp.lt <=> LexSmaller(va, vb)
        /\ cmp.gt <=> LexSmaller(vb, va)
        /\ cmp.eq <=> (va = vb)
        /\ \A i, j \in 1..Len(OrderChain) :
              /\ (i < j /\ va = OrderChain[i] /\ vb = OrderChain[j]) =>
                    cmp.lt /\ cmp.le /\ cmp.ne /\ ~cmp.gt /\ ~cmp.ge /\ ~cmp.eq
              /\ (i > j /\ va = OrderChain[i] /\ vb = OrderChain[j]) =>
                    cmp.gt /\ cmp.ge /\ cmp.ne /\ ~cmp.lt /\ ~cmp.le /\ ~cmp.eq

\* (0,6,0) and (0,6,24), which differ in the patch only, have been compared
C4_Witness ==
    /\ cmp # None /\ va = Version(0, 6, 0) /\ vb = Version(0, 6, 24) /\ cmp.lt

-----------------------------------------------------------------------------
(* C5: parse.                                                              *)

\* C5: parse returns the version X.Y.Z for the bare string "X.Y.Z" and for
\* "migratorxpress X.Y.Z" in any letter case, with or without surrounding
\* whitespace (so the same version for all of them), and raises ValueError
\* for every string that holds no three-part dotted number; a string that
\* holds one is parsed.
C5_Parse ==
    parsed # None =>
        /\ \A c \in ComposedStrings :
              c.text = version_string => parsed.ok /\ parsed.version = c.version
        /\ ~HoldsTriple(version_string) => ~parsed.ok /\ parsed.error = "ValueError"
        /\ HoldsTriple(version_string) => parsed.ok

\* "  MigratorXpress 0.6.24  " has been parsed
C5_Witness ==
    /\ parsed # None /\ parsed.ok
    /\ version_string =
         Compose(<<(<<" ", " ">>), (<<" ", " ">>)>>,
                 <<"M", "i", "g", "r", "a", "t", "o", "r", "X", "p", "r", "e", "s", "s", " ">>,
                 Version(0, 6, 24))

\* "0.6" has been rejected
C5_WitnessError ==
    parsed # None /\ ~parsed.ok /\ version_string = <<"0", ".", "6">>

-----------------------------------------------------------------------------
(* C11: absent fields, presence-only booleans and numeric zeros.           *)

\* the fields in the order in which the specification lists their flags
FieldOrder ==
    <<"auth_file", "source_db_auth_id", "source_db_name", "target_db_auth_id",
      "target_db_name", "migration_db_auth_id", "source_schema_name",
      "target_schema_name", "task_list", "resume", "fasttransfer_dir_path",
      "fasttransfer_p", "ft_large_table_th", "n_jobs", "cci_threshold",
      "aci_threshold", "migration_db_mode", "compute_nbrows",
      "drop_tables_if_exists", "load_mode", "include_tables", "exclude_tables",
      "min_rows", "max_rows", "forced_int_id_prefixes", "forced_int_id_suffixes",
      "profiling_sample_pc", "p_query", "min_sample_pc_profile", "force",
      "basic_diff", "without_xid", "fk_mode", "log_level", "log_dir", "no_banner",
      "no_progress", "quiet_ft", "license", "license_file">>

\* the flag the specification gives to a field
FlagOf(field) == FlagOrder[CHOOSE i \in 1..Len(FieldOrder) : FieldOrder[i] = field]

\* the tokens that the statement of a field appended to a built command
TokensOf(cmd, field) ==
    LET OfField(t) == t.field = field
    IN  Tokens(SelectSeq(cmd, OfField))

NumericFields ==
    {"fasttransfer_p", "ft_large_table_th", "n_jobs", "cci_threshold",
     "aci_threshold", "min_rows", "max_rows", "profiling_sample_pc", "p_query",
     "min_sample_pc_profile"}

FloatFields == {"profiling_sample_pc", "p_query", "min_sample_pc_profile"}

PresenceOnlyFields ==
    {"force", "basic_diff", "without_xid", "no_banner", "no_progress", "quiet_ft"}

\* the request sets the field to the number 0 (0 or 0.0)
SetToZero(field) == Given(field) \in {PyInt(0), PyFloat(0)}

\* the field is absent from the parameter set
Absent(field) == params.model[field] \in {None, PyBool(FALSE)}

\* what C11 says of absent fields and of presence-only booleans: an absent
\* field contributes no token and its flag is nowhere in the command, no
\* token of the command is empty, and a presence-only boolean that is true
\* contributes its flag alone
AbsentAndPresenceOnly(cmd) ==
    LET toks == {cmd[i].tok : i \in 1..Len(cmd)}
        emitted == {cmd[i].field : i \in 1..Len(cmd)}
    IN  /\ \A f \in Fields \ RequiredStrFields :
              Absent(f) => f \notin emitted /\ FlagOf(f) \notin toks
        /\ "" \notin toks
        /\ \A f \in PresenceOnlyFields :
              params.model[f] = PyBool(TRUE) => TokensOf(cmd, f) = <<FlagOf(f)>>

\* C11 as amended: every absent optional field (None, or False for a
\* presence-only boolean) contributes neither its flag nor a value nor an
\* empty token; a presence-only boolean set to true contributes its flag
\* alone; an integer field set to 0 contributes its flag and "0", and a
\* float field set to 0 contributes its flag and "0.0".
C11_AbsentAndZero ==
    \A k \in 1..Len(commands) :
        /\ AbsentAndPresenceOnly(commands[k])
        /\ \A f \in NumericFields :
              SetToZero(f) =>
                 TokensOf(commands[k], f) =
                    <<FlagOf(f), IF f \in FloatFields THEN "0.0" ELSE "0">>

\* C11 as stated: the same, with every numeric field set to 0 contributing
\* its flag and "0".
C11_AsStated ==
    \A k \in 1..Len(commands) :
        /\ AbsentAndPresenceOnly(commands[k])
        /\ \A f \in NumericFields :
              SetToZero(f) => TokensOf(commands[k], f) = <<FlagOf(f), "0">>

\* a command has been built for a request with n_jobs 0 and force true
C11_Witness ==
    /\ commands # <<>>
    /\ Given("n_jobs") = PyInt(0) /\ Given("force") = PyBool(TRUE)

\* a command has been built for a request with p_query 0
C11_WitnessFloat ==
    /\ commands # <<>> /\ Given("p_query") = PyInt(0)

\* a command has been built for a request with force false and no other
\* optional field
C11_WitnessAbsent ==
    /\ commands # <<>>
    /\ Given("force") = PyBool(FALSE) /\ Cardinality(DOMAIN arguments) = 7

-----------------------------------------------------------------------------
(* CommandBuilder.mask_sensitive and format_command_display.  A command    *)
(* is a Python list: an object of the heap, named by its index, that a     *)
(* callee may change in place.                                             *)

\* s.startswith(prefix)
startswith(s, prefix) == Len(s) >= Len(prefix) /\ SubSeq(s, 1, Len(prefix)) = prefix

\* s.endswith(suffix)
endswith(s, suffix) ==
    Len(s) >= Len(suffix) /\ SubSeq(s, Len(s) - Len(suffix) + 1, Len(s)) = suffix

\* sub in s
contains(s, sub) ==
    \E i \in 1..(Len(s) - Len(sub) + 1) : SubSeq(s, i, i + Len(sub) - 1) = sub

\* the parts from index i on, with sep between them
RECURSIVE JoinFrom(_, _, _)
JoinFrom(sep, parts, i) ==
    IF i > Len(parts) THEN ""
    ELSE IF i = Len(parts) THEN parts[i]
    ELSE parts[i] \o sep \o JoinFrom(sep, parts, i + 1)

\* sep.join(parts); the sequence is bound, so that it is evaluated once
join(sep, parts) == CHOOSE s \in {JoinFrom(sep, p, 1) : p \in {parts}} : TRUE

\* masked = list(command): a new list object with the content of list c
ListAlias(h, c) == [heap |-> h, ref |-> c]

list(h, c) == [heap |-> Append(h, h[c]), ref |-> Len(h) + 1]

\* the loop of mask_sensitive over the list it changes, from index i on:
\* enumerate reads each token from the list as it is at that moment
RECURSIVE MaskLoop(_, _)
MaskLoop(lst, i) ==
    IF i > Len(lst) THEN lst
    ELSE IF lst[i] = "--license" /\ i + 1 <= Len(lst)
         THEN MaskLoop([lst EXCEPT ![i + 1] = "******"], i + 1)
         ELSE MaskLoop(lst, i + 1)

\* CommandBuilder.mask_sensitive(command): the heap afterwards and the
\* list returned
mask_sensitive(h, c) ==
    LET copy == list(h, c)
    IN  [heap |-> [copy.heap EXCEPT ![copy.ref] = MaskLoop(@, 1)], ref |-> copy.ref]

\* formatted_parts after the while loop of format_command_display has run
\* from index i on (display_cmd[i - 1] in the code, which counts from 0)
RECURSIVE FormatLoop(_, _, _)
FormatLoop(d, i, parts) ==
    IF i > Len(d) THEN parts
    ELSE IF i < Len(d) /\ startswith(d[i], "-")
    THEN IF ~startswith(d[i + 1], "-")
         THEN FormatLoop(d, i + 2,
                 Append(parts, IF contains(d[i + 1], " ")
                               THEN d[i] \o " \"" \o d[i + 1] \o "\""
                               ELSE d[i] \o " " \o d[i + 1]))
         ELSE FormatLoop(d, i + 1, Append(parts, d[i]))
    ELSE FormatLoop(d, i + 1, Append(parts, d[i]))

\* CommandBuilder.format_command_display(command, mask): the heap
\* afterwards and the string returned
format_command_display(h, c, mask) ==
    LET m == IF mask THEN mask_sensitive(h, c) ELSE [heap |-> h, ref |-> c]
        display_cmd == m.heap[m.ref]
    IN  [heap |-> m.heap,
         text |-> join(" \\\n  ", FormatLoop(display_cmd, 2, <<display_cmd[1]>>))]

-----------------------------------------------------------------------------
(* Specification of masking and display: the command of a request, or a    *)
(* command received as the tokens of an execute request, is masked and     *)
(* formatted.                                                              *)

\* tokens after the binary in a command received as tokens
MaxRaw == 3

DisplayRequests ==
    With(With(With(With({MinimalArguments},
        "license", {PyStr(""), PyStr("KEY-123"), PyStr("my key")}),
        "log_dir", {PyStr("/var/log/mx"), PyStr("/my logs"), PyStr("--license"),
                    PyStr("/my\tlogs")}),
        "forced_int_id_suffixes", {PyList(<<"_ID", "--license">>), PyList(<<"_ID", "a b">>)}),
        "no_banner", {PyBool(TRUE)})

RawCommands ==
    {<<BinaryPath>> \o t : t \in SeqsUpTo({"--license", "KEY-123", "-f"}, MaxRaw)}

InitDisplay ==
    /\ \/ /\ arguments \in DisplayRequests
          /\ heap = <<>> /\ command = 0
       \/ /\ arguments = None
          /\ \E c \in RawCommands : heap = <<c>>
          /\ command = 1
    /\ params = None /\ commands = <<>>
    /\ masked = 0 /\ display = None
    /\ VersionIdle /\ DetectorIdle /\ ServerIdle

\* params = MigrationParams(**arguments); command = build_command(params)
BuildList ==
    /\ arguments # None /\ params = None
    /\ params' = MigrationParams(arguments)
    /\ IF params'.ok
       THEN /\ commands' = <<build_tagged(BinaryPath, params'.model)>>
            /\ heap' = <<Tokens(commands'[1])>>
            /\ command' = 1
       ELSE UNCHANGED <<commands, heap, command>>
    /\ UNCHANGED <<arguments, masked, display>>
    /\ UNCHANGED versionVars /\ UNCHANGED detectorVars /\ UNCHANGED serverVars

\* masked = command_builder.mask_sensitive(command)
MaskCommand ==
    /\ command # 0 /\ masked = 0
    /\ LET m == mask_sensitive(heap, command)
       IN  heap' = m.heap /\ masked' = m.ref
    /\ UNCHANGED <<command, display>>
    /\ UNCHANGED versionVars /\ UNCHANGED detectorVars /\ UNCHANGED builderVars
    /\ UNCHANGED serverVars

\* format_command_display(command, mask=True), then
\* format_command_display(command, mask=False)
Format ==
    /\ command # 0 /\ display = None
    /\ LET a == format_command_display(heap, command, TRUE)
           b == format_command_display(a.heap, command, FALSE)
       IN  heap' = b.heap /\ display' = [masked |-> a.text, clear |-> b.text]
    /\ UNCHANGED <<command, masked>>
    /\ UNCHANGED versionVars /\ UNCHANGED detectorVars /\ UNCHANGED builderVars
    /\ UNCHANGED serverVars

NextDisplay == BuildList \/ MaskCommand \/ Format

SpecDisplay == InitDisplay /\ [][NextDisplay]_vars

-----------------------------------------------------------------------------
(* C12: mask_sensitive.                                                    *)

\* C12: the list mask_sensitive returns is a new list of the length of the
\* command; it holds "******" at every position that directly follows a
\* "--license" token of the command and the command's token at every other
\* position; and the command itself is as it was.
C12_MaskAsStated ==
    [][masked' # masked =>
          /\ masked' # command
          /\ heap'[command] = heap[command]
          /\ Len(heap'[masked']) = Len(heap[command])
          /\ \A i \in 1..Len(heap[command]) :
                heap'[masked'][i] =
                    IF i > 1 /\ heap[command][i - 1] = "--license"
                    THEN "******"
                    ELSE heap[command][i]]_vars

\* the number of "--license" tokens in a row that end at position i
RECURSIVE LicenseRun(_, _)
LicenseRun(lst, i) ==
    IF i >= 1 /\ lst[i] = "--license" THEN 1 + LicenseRun(lst, i - 1) ELSE 0

\* what mask_sensitive does: a new list, the command untouched, the mask
\* at the positions that follow an odd number of "--license" tokens in a
\* row, and the command's token elsewhere
C12_MaskOddRuns ==
    [][masked' # masked =>
          /\ masked' # command
          /\ heap'[command] = heap[command]
          /\ Len(heap'[masked']) = Len(heap[command])
          /\ \A i \in 1..Len(heap[command]) :
                heap'[masked'][i] =
                    IF LicenseRun(heap[command], i - 1) % 2 = 1
                    THEN "******"
                    ELSE heap[command][i]]_vars

\* a command with a license key has been masked
C12_Witness ==
    /\ masked # 0 /\ arguments # None
    /\ \E i \in 1..Len(heap[command]) - 1 :
          heap[command][i] = "--license" /\ heap[command][i + 1] = "KEY-123"

\* a command with two "--license" tokens in a row and another token after
\* them has been masked
C12_WitnessRun ==
    /\ masked # 0
    /\ \E i \in 1..Len(heap[command]) - 2 :
          heap[command][i] = "--license" /\ heap[command][i + 1] = "--license"

-----------------------------------------------------------------------------
(* C13: format_command_display.                                            *)

\* C13: for a valid parameter set with a license key, the display of its
\* command with mask=True contains "******" and not the key, and the
\* display with mask=False contains the key and not "******".
C13_DisplayAsStated ==
    (display # None /\ arguments # None /\ Truthy(params.model.license)) =>
        /\ contains(display.masked, "******")
        /\ ~contains(display.masked, params.model.license.v)
        /\ contains(display.clear, params.model.license.v)
        /\ ~contains(display.clear, "******")

\* the command of a request with a license key and a log directory has
\* been formatted
C13_Witness ==
    /\ display # None /\ arguments # None
    /\ params.model.license = PyStr("KEY-123")
    /\ params.model.log_dir = PyStr("/var/log/mx")

\* the command of a request with a license key, whose log_dir is the text
\* "--license", has been formatted
C13_WitnessLeak ==
    /\ display # None /\ arguments # None
    /\ params.model.license = PyStr("KEY-123")
    /\ params.model.log_dir = PyStr("--license")
    /\ params.model.no_banner = PyBool(FALSE)

-----------------------------------------------------------------------------
(* CommandBuilder: construction and execute_command.                       *)

\* str(Path(s)): a leading "./" is dropped
PathStr(s) == IF startswith(s, "./") /\ Len(s) > 2 THEN SubSeq(s, 3, Len(s)) ELSE s

\* what a path names on the file system: nothing, a directory or a regular
\* file, and whether os.access(path, os.X_OK) holds
File(exists, is_file, executable) ==
    [exists |-> exists, is_file |-> is_file, executable |-> executable]

\* CommandBuilder._validate_binary: "ok", or the message of the
\* MigratorXpressError it raises
validate_binary_access_first(file, path) ==
    IF ~file.exists THEN "MigratorXpress binary not found at: " \o path
    ELSE IF ~file.executable THEN "MigratorXpress binary is not executable: " \o path
    ELSE IF ~file.is_file THEN "MigratorXpress path is not a file: " \o path
    ELSE "ok"

validate_binary(file, path) ==
    IF ~file.exists THEN "MigratorXpress binary not found at: " \o path
    ELSE IF ~file.is_file THEN "MigratorXpress path is not a file: " \o path
    ELSE IF ~file.executable THEN "MigratorXpress binary is not executable: " \o path
    ELSE "ok"

\* raise MigratorXpressError(message)
MigratorXpressError(message) == [class |-> "MigratorXpressError", message |-> message]

\* CommandBuilder(binary_path) when the path names file and the version
\* probe, if one is spawned, ends as outcome: the error raised, or the
\* builder with the state of its version detector
CommandBuilder(binary_path, file, outcome) ==
    LET path == PathStr(binary_path)
        valid == validate_binary(file, path)
    IN  IF valid # "ok"
        THEN [raised |-> TRUE, error |-> MigratorXpressError(valid), spawned |-> FALSE]
        ELSE LET r == detect(FALSE, None, outcome)
             IN  [raised |-> FALSE, builder |-> [binary_path |-> path],
                  done |-> r.done, version |-> r.version, spawned |-> r.spawned]

\* str(e) of an exception of subprocess.run or of the log writer
ExceptionMessage(kind, subject) ==
    CASE kind = "FileNotFoundError" ->
            "[Errno 2] No such file or directory: '" \o subject \o "'"
      [] kind = "PermissionError" -> "[Errno 13] Permission denied: '" \o subject \o "'"
      [] kind = "OSError" -> "[Errno 28] No space left on device"
      [] OTHER -> kind

\* the first of the except clauses that catches the exception, "" if none
FirstClause(kind, clauses) ==
    LET hits == {i \in 1..Len(clauses) : clauses[i] \in ExceptionClasses(kind)}
    IN  IF hits = {} THEN "" ELSE clauses[CHOOSE i \in hits : \A j \in hits : i <= j]

\* the list a command is masked to
Masked(cmd) == LET m == mask_sensitive(<<cmd>>, 1) IN m.heap[m.ref]

\* the timestamp of a log file name, strftime("%Y%m%d_%H%M%S"), for a
\* clock that reads second 0..9 of one minute
Timestamp(second) == "20261104_12000" \o ToString(second)

\* the except clauses of _save_execution_log
SaveExceptClausesOSError == <<"OSError">>

SaveExceptClauses == <<"Exception">>

\* CommandBuilder._save_execution_log, when writing the log ends as
\* logging at clock reading second: the exception it lets through, if any,
\* and the file it left behind
save_execution_log(log_dir, cmd, return_code, stdout, stderr, logging, second) ==
    LET path == PathStr(log_dir) \o "/migratorxpress_" \o Timestamp(second) \o ".log"
        record == [path |-> path, second |-> second,
                   command_line |-> join(" ", Masked(cmd)),
                   return_code |-> return_code, stdout |-> stdout, stderr |-> stderr,
                   complete |-> logging.kind = "saved"]
    IN  IF logging.kind = "saved"
        THEN [raised |-> FALSE, files |-> <<record>>]
        ELSE [raised |-> FirstClause(logging.kind, SaveExceptClauses) = "",
              kind |-> logging.kind,
              files |-> IF logging.at = "write" THEN <<record>> ELSE <<>>]

\* the except clauses of execute_command, in order
ExecuteExceptClausesGeneric == <<"Exception">>

ExecuteExceptClauses == <<"TimeoutExpired", "Exception">>

\* return result.returncode, result.stdout, result.stderr
ReturnStdoutOnly(run) == <<run.returncode, run.stdout, "">>

ReturnTriple(run) == <<run.returncode, run.stdout, run.stderr>>

\* CommandBuilder.execute_command(command, timeout, log_dir) when the
\* process ends as run and writing the log as logging: the process spawned,
\* the log files left behind, and the triple returned or the error raised
execute_command(cmd, timeout, log_dir, run, logging, second) ==
    IF run.kind = "completed"
    THEN LET saved == IF log_dir # None
                      THEN save_execution_log(log_dir.v, cmd, run.returncode,
                                              run.stdout, run.stderr, logging, second)
                      ELSE [raised |-> FALSE, files |-> <<>>]
         IN  IF saved.raised
             THEN [raised |-> TRUE, spawned |-> <<cmd>>, files |-> saved.files,
                   error |-> MigratorXpressError("Execution failed: "
                                 \o ExceptionMessage(saved.kind, PathStr(log_dir.v)))]
             ELSE [raised |-> FALSE, spawned |-> <<cmd>>, files |-> saved.files,
                   value |-> ReturnTriple(run)]
    ELSE LET clause == FirstClause(run.kind, ExecuteExceptClauses)
         IN  [raised |-> TRUE, spawned |-> <<cmd>>, files |-> <<>>,
              error |->
                 IF clause = "TimeoutExpired"
                 THEN MigratorXpressError("Execution timed out after "
                          \o ToString(timeout) \o " seconds")
                 ELSE MigratorXpressError("Execution failed: "
                          \o ExceptionMessage(run.kind, cmd[1]))]

-----------------------------------------------------------------------------
(* shlex.split, as handle_execute_command uses it (POSIX rules, no         *)
(* comments).                                                              *)

\* the characters that end a run of ordinary characters: outside quotes
\* whitespace, the quotes and the escape; in a quoted part the closing
\* quote, and the escape in double quotes
Special(c, quote) ==
    IF quote = "" THEN IsSpace(c) \/ c \in {"'", "\"", "\\"}
    ELSE c = quote \/ (c = "\\" /\ quote = "\"")

\* the position after the run of ordinary characters of s that starts at i
RunEnd(s, i, quote) ==
    LET stops == {j \in i..Len(s) : Special(SubSeq(s, j, j), quote)}
    IN  IF stops = {} THEN Len(s) + 1 ELSE CHOOSE j \in stops : \A k \in stops : j <= k

\* the scan of s from character i on.  quote is "" outside quotes, or the
\* quote character of the quoted part being read; token is the token read
\* so far and open tells that one has been started; tokens are the
\* finished ones.  A run of ordinary characters is added to the token.
RECURSIVE ShlexScan(_, _, _, _, _, _)
ShlexScan(s, i, quote, token, open, tokens) ==
    IF i > Len(s)
    THEN IF quote # "" THEN [ok |-> FALSE, error |-> "No closing quotation"]
         ELSE [ok |-> TRUE, tokens |-> IF open THEN Append(tokens, token) ELSE tokens]
    ELSE LET c == SubSeq(s, i, i)
             n == SubSeq(s, i + 1, i + 1)
             e == RunEnd(s, i, quote)
         IN  IF e > i
             THEN ShlexScan(s, e, quote, token \o SubSeq(s, i, e - 1), TRUE, tokens)
             ELSE IF quote = ""
             THEN IF IsSpace(c)
                  THEN ShlexScan(s, i + 1, "", "", FALSE,
                                 IF open THEN Append(tokens, token) ELSE tokens)
                  ELSE IF c \in {"'", "\""}
                  THEN ShlexScan(s, i + 1, c, token, TRUE, tokens)
                  ELSE IF i = Len(s) THEN [ok |-> FALSE, error |-> "No escaped character"]
                  ELSE ShlexScan(s, i + 2, "", token \o n, TRUE, tokens)
             ELSE IF c = quote
                  THEN ShlexScan(s, i + 1, "", token, TRUE, tokens)
                  ELSE IF i = Len(s) THEN [ok |-> FALSE, error |-> "No escaped character"]
                  ELSE ShlexScan(s, i + 2, quote,
                          IF n \in {"\"", "\\"} THEN token \o n ELSE token \o c \o n,
                          TRUE, tokens)

\* shlex.split(s): the tokens, or the message of the ValueError
shlex_split(s) == ShlexScan(s, 1, "", "", FALSE, <<>>)

-----------------------------------------------------------------------------
(* The server: the preview_command tool.                                   *)

\* the backquote character of the responses, which a TLA+ string cannot
\* hold, and the fence of a code block
Backquote == "~"
Fence == Backquote \o Backquote \o Backquote

\* arguments.get(key, default)
Get(args, key, default) == IF key \in DOMAIN args THEN args[key] ELSE default

\* [f(x) for x in items]
MapSeq(F(_), items) == [i \in 1..Len(items) |-> F(items[i])]

\* check_version_compatibility(arguments, capabilities, detected_version):
\* one warning for each requested task, mode or feature that the resolved
\* capabilities do not hold
check_version_compatibility(args, capabilities, detected) ==
    LET release == IF detected = None THEN "the installed release"
                   ELSE "release " \o join("", str(detected))
        tasks == LET x == Get(args, "task_list", None)
                 IN  IF x.type = "list" THEN x.v ELSE <<>>
        NotATask(t) == t \notin capabilities.tasks
        TaskWarning(t) == "Task '" \o t \o "' is not known for " \o release
        ModeWarning(field, known) ==
            LET x == Get(args, field, None)
            IN  IF x.type = "str" /\ x.v \notin known
                THEN <<field \o " '" \o x.v \o "' is not known for " \o release>>
                ELSE <<>>
    IN  MapSeq(TaskWarning, SelectSeq(tasks, NotATask))
        \o ModeWarning("fk_mode", capabilities.fk_modes)
        \o ModeWarning("migration_db_mode", capabilities.migration_db_modes)
        \o ModeWarning("load_mode", capabilities.load_modes)
        \o (IF Truthy(Get(args, "fasttransfer_dir_path", None))
               /\ ~capabilities.supports_fasttransfer
            THEN <<"FastTransfer is not supported by " \o release>> ELSE <<>>)

\* "\n".join(f"{i+1}. {part}" for i, part in enumerate(parts))
Numbered(parts) == join("\n", [i \in 1..Len(parts) |-> ToString(i) \o ". " \o parts[i]])

\* _build_command_explanation(params)
build_command_explanation(p) ==
    LET filters ==
            (IF Truthy(p.include_tables) THEN <<"include: " \o p.include_tables.v>> ELSE <<>>)
            \o (IF Truthy(p.exclude_tables) THEN <<"exclude: " \o p.exclude_tables.v>> ELSE <<>>)
            \o (IF p.min_rows # None THEN <<"min rows: " \o pystr(p.min_rows)>> ELSE <<>>)
            \o (IF p.max_rows # None THEN <<"max rows: " \o pystr(p.max_rows)>> ELSE <<>>)
    IN  Numbered(
            <<"Migrate from source database '" \o p.source_db_name.v
                \o "' to target database '" \o p.target_db_name.v \o "'">>
            \o (IF Truthy(p.source_schema_name)
                THEN <<"Source schema: " \o p.source_schema_name.v>> ELSE <<>>)
            \o (IF Truthy(p.target_schema_name)
                THEN <<"Target schema: " \o p.target_schema_name.v>> ELSE <<>>)
            \o (IF Truthy(p.task_list)
                THEN <<"Tasks: " \o join(", ", p.task_list.v)>>
                ELSE <<"No specific tasks selected (defaults will apply)">>)
            \o (IF Truthy(p.fasttransfer_dir_path)
                THEN <<"FastTransfer enabled (path: " \o p.fasttransfer_dir_path.v \o ")"
                        \o (IF p.fasttransfer_p # None
                            THEN ", parallelism: " \o pystr(p.fasttransfer_p) ELSE "")>>
                ELSE <<>>)
            \o (IF filters # <<>> THEN <<"Table filters: " \o join(", ", filters)>> ELSE <<>>)
            \o (IF Truthy(p.resume) THEN <<"Resuming previous run: " \o p.resume.v>> ELSE <<>>)
            \o (IF Truthy(p.force)
                THEN <<"WARNING: Force flag is set - existing data may be overwritten">>
                ELSE <<>>)
            \o (IF Truthy(p.license)
                THEN <<"License key provided (masked in display)">> ELSE <<>>))

\* the text of the response when the builder could not be constructed
BinaryNotAccessible(path) ==
    "Error: MigratorXpress binary not found or not accessible.\n"
    \o "Expected location: " \o path \o "\n"
    \o "Please set MIGRATORXPRESS_PATH environment variable correctly."

\* the lines of a ValidationError: one for each error, the field errors in
\* the order of the fields
ValidationErrorLines(errors) ==
    LET Line(e) == "- **" \o e.loc \o "**: " \o e.msg
        OfField(i) == {e \in errors : e.loc = Statements[i][1]}
        FieldLine(i) == IF OfField(i) = {} THEN <<>> ELSE <<Line(CHOOSE e \in OfField(i) : TRUE)>>
        RECURSIVE FieldLines(_)
        FieldLines(i) == IF i > Len(Statements) THEN <<>> ELSE FieldLine(i) \o FieldLines(i + 1)
        whole == {e \in errors : e.loc = ""}
    IN  FieldLines(1) \o (IF whole = {} THEN <<>> ELSE <<Line(CHOOSE e \in whole : TRUE)>>)

\* command = command_builder.build_command(params), after the check gave
\* version_warnings
BuildUnlessWarned(builder, model, version_warnings) ==
    build_tagged(builder.binary_path,
                 IF version_warnings # <<>>
                 THEN [model EXCEPT !.task_list = None, !.fk_mode = None] ELSE model)

BuildChecked(builder, model, version_warnings) == build_tagged(builder.binary_path, model)

\* handle_preview_command(arguments): the text returned and the command
\* built, if one was
handle_preview_command(builder, path, capabilities, detected, args) ==
    IF builder = None
    THEN [text |-> BinaryNotAccessible(path), built |-> <<>>]
    ELSE LET p == MigrationParams(args)
         IN  IF ~p.ok
             THEN [text |-> join("\n", <<"# Validation Error", "",
                                          "The provided parameters are invalid:", "">>
                                        \o ValidationErrorLines(p.errors)),
                   built |-> <<>>]
             ELSE LET version_warnings == check_version_compatibility(args, capabilities, detected)
                      tagged == BuildChecked(builder, p.model, version_warnings)
                      cmd == Tokens(tagged)
                      display_command == format_command_display(<<cmd>>, 1, TRUE).text
                      explanation == build_command_explanation(p.model)
                      Bullet(w) == "- " \o w
                  IN  [text |-> join("\n",
                          <<"# MigratorXpress Command Preview", "",
                            "## What this command will do:", explanation>>
                          \o (IF version_warnings # <<>>
                              THEN <<"", "## Version Compatibility Warnings">>
                                   \o MapSeq(Bullet, version_warnings)
                              ELSE <<>>)
                          \o <<"", "## Command:", Fence \o "bash", display_command, Fence, "",
                               "## To execute this command:",
                               "1. Review the command carefully",
                               "2. Use the " \o Backquote \o "execute_command" \o Backquote \o " tool with the FULL command",
                               "3. Set " \o Backquote \o "confirmation: true" \o Backquote \o " to proceed", "",
                               "## Full command for execution:", Fence,
                               join(" ", cmd), Fence>>),
                       built |-> <<tagged>>]

-----------------------------------------------------------------------------
(* The server: the execute_command tool.                                   *)

\* the safety message of a request that is not confirmed
ExecutionBlocked ==
    "# Execution Blocked\n\n"
    \o "You must set " \o Backquote \o "confirmation: true" \o Backquote
    \o " to execute a command.\n"
    \o "This safety mechanism ensures commands are only executed with explicit approval.\n\n"
    \o "Please review the command carefully and confirm by setting:\n"
    \o Fence \o "json\n" \o "{\"confirmation\": true}\n" \o Fence

\* the test of the confirmation flag
ConfirmedIfGiven(args) == "confirmation" \in DOMAIN args

Confirmed(args) == Truthy(Get(args, "confirmation", PyBool(FALSE)))

\* success = return_code == 0
SuccessIfNotNegative(return_code) == return_code >= 0

Success(return_code) == return_code = 0

\* the response for a completed process
ExecutionReport(return_code, stdout, stderr, log_dir) ==
    LET success == Success(return_code)
    IN  join("\n",
            <<"# MigratorXpress " \o (IF success THEN "Completed" ELSE "Failed"), "",
              "**Status**: " \o (IF success THEN "Success" ELSE "Failed"),
              "**Return Code**: " \o ToString(return_code),
              "**Log Location**: " \o PathStr(log_dir), "",
              "## Output:", Fence, IF stdout # "" THEN stdout ELSE "(no output)", Fence>>
            \o (IF stderr # "" THEN <<"", "## Error Output:", Fence, stderr, Fence>> ELSE <<>>)
            \o (IF ~success
                THEN <<"", "## Troubleshooting:",
                       "- Check the auth file path and credential IDs",
                       "- Verify source and target database connectivity",
                       "- Check migration database connectivity",
                       "- Verify database names and schema names are correct",
                       "- Review the full log file for more information">>
                ELSE <<>>))

\* handle_execute_command(arguments) when the process, if one is spawned,
\* ends as run and writing its log as logging: the text returned, the
\* command lines handed to subprocess.run, the log files left behind, and
\* what CommandBuilder.execute_command returned or raised, if it was called
handle_execute_command(builder, config, args, run, logging, second) ==
    LET Answer(text) == [text |-> text, spawned |-> <<>>, files |-> <<>>, result |-> None]
        command_str == Get(args, "command", PyStr(""))
        split == shlex_split(command_str.v)
    IN  IF builder = None
        THEN Answer("Error: MigratorXpress binary not found. Please check MIGRATORXPRESS_PATH.")
        ELSE IF ~Confirmed(args) THEN Answer(ExecutionBlocked)
        ELSE IF ~Truthy(command_str)
        THEN Answer("Error: No command provided. Please provide the command from preview_command.")
        ELSE IF ~split.ok THEN Answer("Error parsing command: " \o split.error)
        ELSE LET r == execute_command(split.tokens, config.MIGRATORXPRESS_TIMEOUT,
                                      [type |-> "Path", v |-> config.MIGRATORXPRESS_LOG_DIR],
                                      run, logging, second)
             IN  [spawned |-> r.spawned, files |-> r.files, result |-> r,
                  text |-> IF r.raised
                           THEN "# Execution Failed\n\nError: " \o r.error.message
                           ELSE ExecutionReport(r.value[1], r.value[2], r.value[3],
                                                config.MIGRATORXPRESS_LOG_DIR)]

-----------------------------------------------------------------------------
(* The server: the tools that do not use the command builder.              *)

\* a JSON object as json.load returns it: a dict with the given items
PyDict(items) == [type |-> "dict", items |-> items]

\* "- Missing auth_id: ..." for each required id that is not found
MissingIds(required, found) ==
    LET Missing(id) == id \notin found
        Issue(id) == "- Missing auth_id: '" \o id \o "'"
    IN  MapSeq(Issue, SelectSeq(required, Missing))

\* handle_validate_auth_file(arguments), for what file_path names: nothing
\* ("missing"), a directory, a file that cannot be read ("unreadable"), a
\* file that is not JSON ("invalid"), or a JSON document
handle_validate_auth_file(args, file) ==
    LET file_path == Get(args, "file_path", PyStr("")).v
        required_auth_ids == Get(args, "required_auth_ids", PyList(<<>>)).v
        auth_data == IF file.kind = "document" THEN file.doc ELSE None
        opened ==
            CASE file.kind = "missing"    -> <<"- File not found: " \o file_path>>
              [] file.kind = "directory"  -> <<"- Path is not a file: " \o file_path>>
              [] file.kind = "invalid"    ->
                    <<"- Invalid JSON: Expecting value: line 1 column 1 (char 0)">>
              [] file.kind = "unreadable" -> <<"- Permission denied reading: " \o file_path>>
              [] OTHER                    -> <<>>
        entries == IF auth_data.type = "list" THEN auth_data.v ELSE <<>>
        found_ids == {entries[i].items["id"] :
                        i \in {j \in 1..Len(entries) :
                                  entries[j].type = "dict" /\ "id" \in DOMAIN entries[j].items}}
        ids == IF auth_data # None /\ required_auth_ids # <<>>
               THEN IF auth_data.type = "dict"
                    THEN MissingIds(required_auth_ids, DOMAIN auth_data.items)
                    ELSE IF auth_data.type = "list"
                    THEN MissingIds(required_auth_ids, found_ids)
                    ELSE <<>>
               ELSE <<>>
        issues == opened \o ids
        entry_count == IF auth_data.type = "dict" THEN Cardinality(DOMAIN auth_data.items)
                       ELSE IF auth_data.type = "list" THEN Len(auth_data.v)
                       ELSE 0
    IN  [text |-> join("\n",
            IF issues # <<>>
            THEN <<"# Auth File Validation - Issues Found", "",
                   "**File**: " \o file_path, "">> \o issues
            ELSE <<"# Auth File Validation - OK", "", "**File**: " \o file_path,
                   "**Valid JSON**: Yes", "**Entries**: " \o ToString(entry_count)>>
                 \o (IF required_auth_ids # <<>>
                     THEN <<"**Required auth_ids present**: "
                              \o join(", ", required_auth_ids)>>
                     ELSE <<>>))]

\* get_supported_capabilities(): for each heading, the items listed
get_supported_capabilities ==
    << <<"## Source Databases",
         <<"Oracle (oracle)", "PostgreSQL (postgresql)", "SQL Server (sqlserver)",
           "Netezza (netezza)">> >>,
       <<"## Target Databases", <<"PostgreSQL (postgresql)", "SQL Server (sqlserver)">> >>,
       <<"## Migration Database", <<"SQL Server (sqlserver)">> >>,
       <<"## Available Tasks",
         <<"**translate**: Translate source schema to target schema DDL",
           "**create**: Create target tables from translated DDL",
           "**transfer**: Transfer data from source to target",
           "**diff**: Compare source and target row counts",
           "**copy_pk**: Copy primary key constraints to target",
           "**copy_ak**: Copy alternate key (unique) constraints to target",
           "**copy_fk**: Copy foreign key constraints to target",
           "**all**: Run all tasks in sequence (translate, create, transfer, diff, copy_pk, copy_ak, copy_fk)">> >>,
       <<"## Migration DB Modes",
         <<"**preserve**: Keep existing migration database data",
           "**truncate**: Clear migration database before run",
           "**drop**: Drop and recreate migration database">> >>,
       <<"## Load Modes",
         <<"**truncate**: Truncate target tables before loading",
           "**append**: Append data to existing target tables">> >>,
       <<"## FK Modes",
         <<"**trusted**: Create foreign keys as trusted constraints",
           "**untrusted**: Create foreign keys as untrusted constraints",
           "**disabled**: Create foreign keys in disabled state">> >> >>

\* handle_list_capabilities(arguments)
handle_list_capabilities ==
    LET Item(x) == "- " \o x
        RECURSIVE Sections(_)
        Sections(i) ==
            IF i > Len(get_supported_capabilities) THEN <<>>
            ELSE <<get_supported_capabilities[i][1], "">>
                 \o MapSeq(Item, get_supported_capabilities[i][2]) \o <<"">>
                 \o Sections(i + 1)
    IN  [text |-> join("\n", <<"# MigratorXpress Capabilities", "">> \o Sections(1))]

\* suggest_workflow(source_type, target_type, include_constraints): the
\* steps, each with its number, its task and the task list of its example
suggest_workflow(include_constraints) ==
    <<
       <<"1", "translate", "Translate source schema DDL to target-compatible DDL", "translate">>,
       <<"2", "create", "Create target tables from translated DDL", "create">>,
       <<"3", "transfer", "Transfer data from source to target tables", "transfer">>,
       <<"4", "diff", "Compare source and target row counts to verify transfer", "diff">>
    >>
    \o (IF include_constraints
        THEN << <<"5", "copy_pk + copy_ak + copy_fk",
                  "Copy primary keys, alternate keys, and foreign keys to target",
                  "copy_pk copy_ak copy_fk">> >>
        ELSE <<>>)
    \o << <<"alt", "all", "Alternative: run all tasks in a single invocation", "all">> >>

\* handle_suggest_workflow(arguments)
handle_suggest_workflow(args) ==
    LET source_type == Get(args, "source_type", PyStr("")).v
        target_type == Get(args, "target_type", PyStr("")).v
        include_constraints == Truthy(Get(args, "include_constraints", PyBool(TRUE)))
        steps == suggest_workflow(include_constraints)
        RECURSIVE Steps(_)
        Steps(i) ==
            IF i > Len(steps) THEN <<>>
            ELSE <<"### Step " \o steps[i][1] \o ": " \o steps[i][2], steps[i][3], "",
                   Fence \o "bash",
                   "MigratorXpress -a auth.json "
                     \o "--source_db_auth_id source_db --source_db_name mydb "
                     \o "--target_db_auth_id target_db --target_db_name targetdb "
                     \o "--migration_db_auth_id migration_db "
                     \o "--task_list " \o steps[i][4],
                   Fence, "">>
                 \o Steps(i + 1)
    IN  [text |-> join("\n",
            <<"# MigratorXpress Workflow Suggestion", "",
              "**Source**: " \o source_type, "**Target**: " \o target_type,
              "**Include Constraints**: " \o (IF include_constraints THEN "Yes" ELSE "No"),
              "", "## Steps:", "">> \o Steps(1))]

\* the capability names in the order of sorted()
SortedNames ==
    <<"all", "append", "copy_ak", "copy_fk", "copy_pk", "create", "diff", "disabled",
      "drop", "netezza", "oracle", "postgresql", "preserve", "sqlserver", "transfer",
      "translate", "truncate", "trusted", "untrusted">>

\* ", ".join(f"`{d}`" for d in sorted(names))
QuotedList(names) ==
    LET Held(n) == n \in names
        Quoted(n) == Backquote \o n \o Backquote
    IN  join(", ", MapSeq(Quoted, SelectSeq(SortedNames, Held)))

\* handle_get_version(arguments)
handle_get_version(builder, path, caps, detected) ==
    LET YesNo(b) == IF b THEN "Yes" ELSE "No"
    IN  IF builder = None
        THEN [text |-> BinaryNotAccessible(path)]
        ELSE [text |-> join("\n",
                <<"# MigratorXpress Version Information", "",
                  "**Version**: " \o (IF detected # None THEN join("", str(detected))
                                      ELSE "Unknown"),
                  "**Detected**: " \o YesNo(detected # None),
                  "**Binary Path**: " \o builder.binary_path, "",
                  "## Supported Source Databases:", QuotedList(caps.source_databases), "",
                  "## Supported Target Databases:", QuotedList(caps.target_databases), "",
                  "## Migration Database Types:", QuotedList(caps.migration_db_types), "",
                  "## Available Tasks:", QuotedList(caps.tasks), "",
                  "## FK Modes:", QuotedList(caps.fk_modes), "",
                  "## Migration DB Modes:", QuotedList(caps.migration_db_modes), "",
                  "## Load Modes:", QuotedList(caps.load_modes), "",
                  "## Feature Flags:",
                  "- No Banner: " \o YesNo(caps.supports_no_banner),
                  "- Version Flag: " \o YesNo(caps.supports_version_flag),
                  "- FastTransfer: " \o YesNo(caps.supports_fasttransfer),
                  "- License: " \o YesNo(caps.supports_license)>>)]

-----------------------------------------------------------------------------
(* Specification of the server: the configuration is read and the global   *)
(* command builder constructed, then tool calls are answered one by one.   *)

\* tool calls answered in one behaviour
MaxToolCalls == 1

\* the configuration of the module: os.getenv with the defaults
Configuration(environ) ==
    [MIGRATORXPRESS_PATH |-> Get(environ, "MIGRATORXPRESS_PATH", "./MigratorXpress"),
     MIGRATORXPRESS_TIMEOUT |->
        int(Get(environ, "MIGRATORXPRESS_TIMEOUT", <<"3", "6", "0", "0">>)),
     MIGRATORXPRESS_LOG_DIR |-> Get(environ, "MIGRATORXPRESS_LOG_DIR", "./logs")]

\* the environments the server is started in: nothing set, or the binary
\* and a short timeout
Environs ==
    {<<>>,
     [MIGRATORXPRESS_PATH |-> "/opt/mx/MigratorXpress",
      MIGRATORXPRESS_TIMEOUT |-> <<"1", "0">>]}

\* what the configured path may name
BinaryFiles ==
    {File(FALSE, FALSE, FALSE), File(TRUE, FALSE, TRUE), File(TRUE, FALSE, FALSE),
     File(TRUE, TRUE, FALSE), File(TRUE, TRUE, TRUE)}

\* how the version probe of the construction may end
StartupProbes ==
    {o \in ProbeOutcomes :
        \/ o.kind = "TimeoutExpired"
        \/ /\ o.kind = "completed"
           /\ o.stderr = <<>>
           /\ o.stdout \in {ProductName \o <<" ">> \o str(Version(0, 6, 24)) \o <<"\n">>,
                            Chars_Unknown}}

\* the module is about to be loaded in one of the environments, with one
\* of the files at the configured path and one of the registries
ServerStarts(environs, files, registries) ==
    /\ phase = "startup"
    /\ \E environ \in environs : env = Configuration(environ)
    /\ binary_file \in files
    /\ command_builder = None
    /\ \E keys \in registries : SORTED_VERSIONS = SortedVersions(keys)
    /\ detection_done = FALSE /\ detected_version = None /\ spawns = <<>>
    /\ ncalls = 0 /\ ret = None /\ first_ret = None /\ callers = <<>>
    /\ processes = <<>> /\ log_files = <<>>
    /\ request = None /\ response = None /\ result = None /\ auth_file = None
    /\ VersionIdle /\ BuilderIdle /\ DisplayIdle

InitServer == ServerStarts(Environs, BinaryFiles, {{str(Version(0, 6, 24))}})

\* a probe ends in some way only if the construction gets to spawn one
PossibleProbes ==
    IF validate_binary(binary_file, PathStr(env.MIGRATORXPRESS_PATH)) = "ok"
    THEN StartupProbes ELSE {[kind |-> "no probe"]}

\* the state of the module once the construction ended as r and the
\* detect() of get_version(), which the module calls on the builder, as
\* again: command_builder is the builder, or None when the construction
\* raised MigratorXpressError
Loaded(r, again) ==
    LET probes == (IF r.spawned THEN 1 ELSE 0) + (IF again.spawned THEN 1 ELSE 0)
    IN  IF r.raised
        THEN /\ command_builder' = None
             /\ ret' = [op |-> "CommandBuilder", raised |-> TRUE, error |-> r.error]
             /\ UNCHANGED <<detection_done, detected_version, spawns>>
        ELSE /\ command_builder' = r.builder
             /\ ret' = [op |-> "CommandBuilder", raised |-> FALSE]
             /\ detection_done' = again.done
             /\ detected_version' = again.version
             /\ spawns' = [i \in 1..probes |-> ProbeArgv(r.builder.binary_path)]

\* version_info = command_builder.get_version(), after the construction
\* ended as r
GetVersionInfo(r, outcome) == Loaded(r, detect(r.done, r.version, outcome))

\* the module is loaded: command_builder = CommandBuilder(MIGRATORXPRESS_PATH)
\* and command_builder.get_version()
Startup ==
    /\ phase = "startup"
    /\ \E outcome \in PossibleProbes :
          GetVersionInfo(CommandBuilder(env.MIGRATORXPRESS_PATH, binary_file, outcome),
                         outcome)
    /\ phase' = "serving"
    /\ UNCHANGED <<SORTED_VERSIONS, ncalls, first_ret, callers>>
    /\ UNCHANGED <<env, binary_file, processes, log_files, request, response, result>>
    /\ UNCHANGED auth_file
    /\ UNCHANGED versionVars /\ UNCHANGED builderVars /\ UNCHANGED displayVars

\* tool calls answered so far
Calls == IF request = None THEN 0 ELSE request.n

\* call_tool(name, arguments) is answered with text, after the handler
\* built the commands of built, spawned the processes of spawned (each
\* with its command line, how it ended and how writing its log ended) and
\* left files behind; res is what CommandBuilder.execute_command returned
\* or raised, None if it was not called
Replied(name, args, text, built, spawned, files, res) ==
    /\ request' = [n |-> Calls + 1, name |-> name, arguments |-> args]
    /\ response' = text
    /\ commands' = commands \o built
    /\ processes' = processes \o spawned
    /\ log_files' = log_files \o files
    /\ result' = res
    /\ UNCHANGED <<phase, env, binary_file, command_builder, arguments, params>>
    /\ UNCHANGED <<SORTED_VERSIONS, ncalls, ret, first_ret, callers>>
    /\ UNCHANGED versionVars /\ UNCHANGED displayVars

\* a call answered by a handler that neither uses the version detector nor
\* looks at an auth file
Answered(name, args, text, built, spawned, files, res) ==
    /\ Replied(name, args, text, built, spawned, files, res)
    /\ UNCHANGED <<detection_done, detected_version, spawns, auth_file>>

\* a probe ends in some way only if a request gets to spawn one, which
\* detect() does only while detection is not marked done
RequestProbes ==
    IF command_builder # None /\ ~detection_done
    THEN StartupProbes ELSE {[kind |-> "no probe"]}

\* the detector as a handler finds it when it does not call detect()
Cached ==
    [done |-> detection_done, version |-> detected_version, value |-> detected_version,
     raised |-> FALSE, spawned |-> FALSE]

\* the detector after a handler called detect() or read capabilities, with
\* the record of the probe if one was spawned
Probed(d) ==
    /\ detection_done' = d.done
    /\ detected_version' = d.version
    /\ spawns' = IF d.spawned
                 THEN Append(spawns, ProbeArgv(command_builder.binary_path)) ELSE spawns

\* the license keys of the requests
LicenseKeys == {"KEY-123", "KEY-456"}

\* the arguments of the preview_command calls
PreviewRequests ==
    {MinimalArguments,
     MinimalArguments @@ ("license" :> PyStr("")),
     MinimalArguments @@ ("license_file" :> PyStr("/etc/mx.lic")),
     MinimalArguments @@ ("task_list" :> PyList(<<"translate", "bogus">>)),
     [f \in RequiredStrFields \ {"auth_file"} |-> MinimalArguments[f]],
     MinimalArguments @@ ("task_list" :> PyList(<<"all", "translate">>)),
     MinimalArguments @@ ("compute_nbrows" :> PyStr("yes")),
     MinimalArguments @@ ("fk_mode" :> PyStr("bogus")),
     MinimalArguments @@ ("license" :> PyStr("KEY-123"))
        @@ ("license_file" :> PyStr("/etc/mx.lic"))}
    \cup {MinimalArguments @@ ("license" :> PyStr(k)) : k \in LicenseKeys}
    \cup {MinimalArguments @@ ("license" :> PyStr(k)) @@ ("force" :> PyBool(TRUE))
            @@ ("task_list" :> PyList(<<"transfer">>)) : k \in LicenseKeys}

\* call_tool("preview_command", arguments)
\* the handler reads version_detector.capabilities, which calls detect()
\* while detection is not done, once the parameters are validated
PreviewAnswered(args, d) ==
    \E r \in {handle_preview_command(command_builder, env.MIGRATORXPRESS_PATH,
                    resolve(SORTED_VERSIONS, d.version), d.version, args)} :
       /\ Replied("preview_command", args, r.text, r.built, <<>>, <<>>, None)
       /\ Probed(d)
       /\ UNCHANGED auth_file

PreviewOf(requests, max) ==
    /\ phase = "serving" /\ Calls < max
    /\ \E args \in requests, outcome \in RequestProbes :
          PreviewAnswered(args,
              IF command_builder # None /\ MigrationParams(args).ok /\ ~detection_done
              THEN detect(detection_done, detected_version, outcome) ELSE Cached)

Preview == PreviewOf(PreviewRequests, MaxToolCalls)

\* the command strings of the execute_command calls: the full command of
\* a preview answered before, or any other command line
CommandStrings ==
    {join(" ", Tokens(commands[i])) : i \in 1..Len(commands)}
    \cup {"/bin/rm -rf '/data dir'", "MigratorXpress 'x", ""}

\* the arguments of the execute_command calls: any of the command strings
\* or none, with any of the confirmations or none
ExecuteRequestsOf(strings, confirmations) ==
    LET given == {("command" :> PyStr(c)) : c \in strings} \cup {<<>>}
    IN  given \cup {g @@ ("confirmation" :> c) : g \in given, c \in confirmations}

ExecuteRequests ==
    ExecuteRequestsOf(CommandStrings,
                      {PyBool(FALSE), PyBool(TRUE), PyStr("no"), PyInt(0), None})

\* how the spawned process may end
Runs ==
    {[kind |-> "completed", returncode |-> 0, stdout |-> "Migration complete", stderr |-> ""],
     [kind |-> "completed", returncode |-> 1, stdout |-> "", stderr |-> "Login failed"],
     [kind |-> "completed", returncode |-> -9, stdout |-> "Transferring", stderr |-> "Killed"]}
    \cup {[kind |-> k] : k \in {"TimeoutExpired", "FileNotFoundError", "PermissionError"}}

\* how writing the execution log may end: it is saved, or an exception is
\* raised while the directory is made or while the file is written
Loggings ==
    {[kind |-> "saved", at |-> "write"],
     [kind |-> "PermissionError", at |-> "mkdir"],
     [kind |-> "OSError", at |-> "write"],
     [kind |-> "UnicodeEncodeError", at |-> "write"]}

\* the readings of the clock when a log file is named: the clock does not
\* go back, and reads at most one second more for each call
Clock(max) ==
    LET last == IF log_files = <<>> THEN 0 ELSE log_files[Len(log_files)].second
    IN  {s \in {last, last + 1} : s < max}

\* a process ends in some way only if the request gets to spawn one, and
\* the log is written only when the process completed
PossibleRuns(args, runs, loggings, max) ==
    LET probe == handle_execute_command(command_builder, env, args,
                     [kind |-> "TimeoutExpired"], [kind |-> "no log"], 0)
    IN  IF probe.spawned = <<>>
        THEN {<<[kind |-> "no process"], [kind |-> "no log"], 0>>}
        ELSE {<<run, [kind |-> "no log"], 0>> : run \in {r \in runs : r.kind # "completed"}}
             \cup {<<run, logging, second>> :
                     run \in {r \in runs : r.kind = "completed"},
                     logging \in loggings, second \in Clock(max)}

\* call_tool("execute_command", arguments)
ExecuteOf(requests, runs, loggings, max) ==
    /\ phase = "serving" /\ Calls < max
    /\ \E args \in requests :
          \E how \in PossibleRuns(args, runs, loggings, max) :
             \E r \in {handle_execute_command(command_builder, env, args,
                                               how[1], how[2], how[3])} :
                Answered("execute_command", args, r.text, <<>>,
                         [i \in 1..Len(r.spawned) |->
                            [argv |-> r.spawned[i], run |-> how[1], logging |-> how[2]]],
                         r.files, r.result)

Execute == ExecuteOf(ExecuteRequests, Runs, Loggings, MaxToolCalls)

\* what file_path may name, with the documents the file may hold
AuthFiles ==
    {[kind |-> k] : k \in {"missing", "directory", "unreadable", "invalid"}}
    \cup {[kind |-> "document", doc |-> d] :
            d \in {PyDict(("source_db" :> PyStr("x")) @@ ("target_db" :> PyStr("y"))),
                   PyList(<<PyDict(("id" :> "source_db")), PyStr("target_db")>>),
                   PyStr("source_db"),
                   None}}

\* the arguments of the validate_auth_file calls
AuthRequests ==
    {("file_path" :> PyStr("auth.json")),
     ("file_path" :> PyStr("auth.json"))
        @@ ("required_auth_ids" :> PyList(<<"source_db", "target_db">>))}

\* call_tool("validate_auth_file", arguments)
ValidateAuthFile ==
    /\ phase = "serving" /\ Calls < MaxToolCalls
    /\ \E args \in AuthRequests, file \in AuthFiles :
          /\ Replied("validate_auth_file", args, handle_validate_auth_file(args, file).text,
                     <<>>, <<>>, <<>>, None)
          /\ auth_file' = file
          /\ UNCHANGED <<detection_done, detected_version, spawns>>

\* call_tool("list_capabilities", {})
ListCapabilities ==
    /\ phase = "serving" /\ Calls < MaxToolCalls
    /\ Answered("list_capabilities", <<>>, handle_list_capabilities.text,
                <<>>, <<>>, <<>>, None)

\* the arguments of the suggest_workflow calls
WorkflowRequests ==
    LET types == ("source_type" :> PyStr("oracle")) @@ ("target_type" :> PyStr("postgresql"))
    IN  {types, types @@ ("include_constraints" :> PyBool(FALSE))}

\* call_tool("suggest_workflow", arguments)
SuggestWorkflow ==
    /\ phase = "serving" /\ Calls < MaxToolCalls
    /\ \E args \in WorkflowRequests :
          Answered("suggest_workflow", args, handle_suggest_workflow(args).text,
                   <<>>, <<>>, <<>>, None)

\* call_tool("get_version", {})
\* the handler calls command_builder.get_version(), which calls detect()
VersionAnswered(d) ==
    /\ Replied("get_version", <<>>,
               handle_get_version(command_builder, env.MIGRATORXPRESS_PATH,
                   resolve(SORTED_VERSIONS, d.version), d.version).text,
               <<>>, <<>>, <<>>, None)
    /\ Probed(d)
    /\ UNCHANGED auth_file

GetVersionOf(max) ==
    /\ phase = "serving" /\ Calls < max
    /\ \E outcome \in RequestProbes :
          VersionAnswered(IF command_builder # None
                          THEN detect(detection_done, detected_version, outcome)
                          ELSE Cached)

GetVersion == GetVersionOf(MaxToolCalls)

\* call_tool(name, arguments) for a name that is none of the six tools
UnknownTool ==
    /\ phase = "serving" /\ Calls < MaxToolCalls
    /\ Answered("drop_database", <<>>, "Error: Unknown tool 'drop_database'",
                <<>>, <<>>, <<>>, None)

NextServer ==
    \/ Startup
    \/ Preview
    \/ Execute
    \/ ValidateAuthFile
    \/ ListCapabilities
    \/ SuggestWorkflow
    \/ GetVersion
    \/ UnknownTool

SpecServer == InitServer /\ [][NextServer]_vars

-----------------------------------------------------------------------------
(* Claims about the server.                                                *)

\* the request answered last is a call of the tool
Called(name) == request # None /\ request.name = name

\* the preview request answered last gave a license key
PreviewWithLicense ==
    /\ Called("preview_command")
    /\ "license" \in DOMAIN request.arguments
    /\ request.arguments["license"].v \in LicenseKeys

\* the text preview_command returns for the arguments, in the state of the
\* server
PreviewText(args) ==
    handle_preview_command(command_builder, env.MIGRATORXPRESS_PATH,
        resolve(SORTED_VERSIONS, detected_version), detected_version, args).text

\* C14, as the claim states it: the text returned by preview_command is
\* the same for requests that differ only in the value of the license key,
\* and the key appears nowhere in it.  The response ends with the full
\* command, joined unmasked, so this does not hold.
C14_PreviewMasksLicense ==
    PreviewWithLicense =>
        /\ \A k \in LicenseKeys :
              response = PreviewText([request.arguments EXCEPT !["license"] = PyStr(k)])
        /\ ~contains(response, request.arguments["license"].v)

\* a preview of a valid request with a license key was answered by a
\* server whose builder exists, and the key is in the text in clear
C14_WitnessLeak ==
    /\ PreviewWithLicense
    /\ command_builder # None
    /\ contains(response, "--license " \o request.arguments["license"].v)
    /\ contains(response, "--license ******")


\* the response of execute_command when the builder could not be
\* constructed
BinaryNotFound == "Error: MigratorXpress binary not found. Please check MIGRATORXPRESS_PATH."

\* the confirmation flag of the arguments is absent or falsy
Unconfirmed(args) ==
    \/ "confirmation" \notin DOMAIN args
    \/ args["confirmation"] \in {PyBool(FALSE), PyInt(0), PyStr(""), None}

\* this step answers a call of the tool
Answers(name) == request' # request /\ request'.name = name

\* this step spawns no process and writes no log
NothingRun == processes' = processes /\ log_files' = log_files

\* C15 (amended): an execute_command request whose confirmation flag is
\* absent or falsy spawns no process and writes no log; it is answered
\* with the 'Execution Blocked' message when the command builder exists,
\* and with the binary-not-found error when it does not.  execute_command
\* spawns a process only in a request whose confirmation is truthy.
C15_Gated ==
    [][Answers("execute_command") =>
          /\ Unconfirmed(request'.arguments) =>
                /\ NothingRun
                /\ response' = IF command_builder # None THEN ExecutionBlocked
                               ELSE BinaryNotFound
          /\ ~NothingRun => ~Unconfirmed(request'.arguments)]_vars

\* C15, as the claim states it: every unconfirmed request is answered with
\* the 'Execution Blocked' message
C15_AsStated ==
    [][Answers("execute_command") /\ Unconfirmed(request'.arguments) =>
          NothingRun /\ response' = ExecutionBlocked]_vars

\* a request with confirmation false and a command was blocked by a
\* server whose builder exists
C15_Witness ==
    /\ Called("execute_command")
    /\ command_builder # None
    /\ "confirmation" \in DOMAIN request.arguments
    /\ request.arguments["confirmation"] = PyBool(FALSE)
    /\ "command" \in DOMAIN request.arguments
    /\ request.arguments["command"].v = "/bin/rm -rf '/data dir'"
    /\ response = ExecutionBlocked
    /\ processes = <<>> /\ log_files = <<>>

\* a request without the flag was answered by a server without builder
C15_WitnessNoBuilder ==
    /\ Called("execute_command")
    /\ command_builder = None
    /\ "confirmation" \notin DOMAIN request.arguments
    /\ response = BinaryNotFound

\* a confirmed request spawned its process
C15_WitnessSpawned ==
    /\ Called("execute_command")
    /\ "confirmation" \in DOMAIN request.arguments
    /\ request.arguments["confirmation"] = PyStr("no")
    /\ Len(processes) = 1
    /\ processes[1].argv = <<"/bin/rm", "-rf", "/data dir">>


\* the call answered last got to CommandBuilder.execute_command, whose
\* process is the last one spawned
Executed == Called("execute_command") /\ result # None /\ processes # <<>>

\* the process spawned last
LastProcess == processes[Len(processes)]

\* C16: when the spawned process completes, with any exit code,
\* execute_command returns the triple (exit code, stdout, stderr) without
\* raising, and the server answers with a report: success for exit code
\* 0, failure for any other, never the text of a raised error.
C16_Completion ==
    (Executed /\ LastProcess.run.kind = "completed") =>
        LET run == LastProcess.run
        IN  /\ ~result.raised
            /\ result.value = <<run.returncode, run.stdout, run.stderr>>
            /\ startswith(response,
                  IF run.returncode = 0
                  THEN "# MigratorXpress Completed\n\n**Status**: Success\n**Return Code**: 0\n"
                  ELSE "# MigratorXpress Failed\n\n**Status**: Failed\n**Return Code**: "
                          \o ToString(run.returncode) \o "\n")
            /\ ~contains(response, "Execution Failed")

\* a process that ended with exit code 1 was reported as a failure
C16_Witness ==
    /\ Executed
    /\ LastProcess.run.kind = "completed" /\ LastProcess.run.returncode = 1
    /\ result.value = <<1, "", "Login failed">>
    /\ contains(response, "**Status**: Failed")

\* a process that was killed by a signal and one that ended with 0
C16_WitnessSignal ==
    /\ Executed
    /\ LastProcess.run.kind = "completed" /\ LastProcess.run.returncode < 0
    /\ contains(response, "**Return Code**: -9")

C16_WitnessSuccess ==
    /\ Executed
    /\ LastProcess.run.kind = "completed" /\ LastProcess.run.returncode = 0
    /\ contains(response, "**Status**: Success")


\* C17: execute_command returns a triple only when the process completed.
\* When the process exceeds the timeout it raises a MigratorXpressError
\* whose message carries the configured timeout; on any other failure to
\* spawn or run it raises a MigratorXpressError whose message wraps that
\* of the cause.  An error raised comes with no triple.
C17_Failures ==
    Executed =>
        LET run == LastProcess.run
        IN  /\ ~result.raised <=> run.kind = "completed"
            /\ result.raised =>
                  /\ "value" \notin DOMAIN result
                  /\ result.error.class = "MigratorXpressError"
            /\ run.kind = "TimeoutExpired" =>
                  result.error.message =
                     "Execution timed out after " \o ToString(env.MIGRATORXPRESS_TIMEOUT)
                        \o " seconds"
            /\ run.kind \notin {"completed", "TimeoutExpired"} =>
                  result.error.message =
                     "Execution failed: " \o ExceptionMessage(run.kind, LastProcess.argv[1])

\* the process exceeded the timeout of 10 seconds set in the environment
C17_Witness ==
    /\ Executed
    /\ LastProcess.run.kind = "TimeoutExpired"
    /\ env.MIGRATORXPRESS_TIMEOUT = 10
    /\ result.raised
    /\ response = "# Execution Failed\n\nError: Execution timed out after 10 seconds"

\* the binary of the command line could not be run
C17_WitnessCause ==
    /\ Executed
    /\ LastProcess.run.kind = "PermissionError"
    /\ response = "# Execution Failed\n\nError: Execution failed: "
                     \o "[Errno 13] Permission denied: '/bin/rm'"


\* C18: when the process completed and making the log directory or
\* writing the log file fails, execute_command does not raise: it returns
\* the triple it returns when it is given no log directory.
C18_BestEffortLog ==
    (Executed /\ LastProcess.run.kind = "completed" /\ LastProcess.logging.kind # "saved") =>
        LET run == LastProcess.run
            unlogged == execute_command(LastProcess.argv, env.MIGRATORXPRESS_TIMEOUT, None,
                                        run, [kind |-> "no log"], 0)
        IN  /\ ~result.raised
            /\ result.value = unlogged.value
            /\ result.value = <<run.returncode, run.stdout, run.stderr>>
            /\ ~contains(response, "Execution Failed")

\* the log file could not be encoded: the file is left incomplete and the
\* successful run is reported as such
C18_Witness ==
    /\ Executed
    /\ LastProcess.run.kind = "completed" /\ LastProcess.run.returncode = 0
    /\ LastProcess.logging = [kind |-> "UnicodeEncodeError", at |-> "write"]
    /\ result.value = <<0, "Migration complete", "">>
    /\ Len(log_files) = 1 /\ ~log_files[1].complete
    /\ contains(response, "**Status**: Success")

\* the log directory could not be made: no file is left
C18_WitnessMkdir ==
    /\ Executed
    /\ LastProcess.run.kind = "completed"
    /\ LastProcess.logging = [kind |-> "PermissionError", at |-> "mkdir"]
    /\ ~result.raised
    /\ log_files = <<>>


\* the construction of the global command builder has been attempted
Constructed == phase = "serving" /\ ret # None /\ ret.op = "CommandBuilder"

\* C19: CommandBuilder(path) raises a MigratorXpressError when the path
\* does not exist, else when it is not a regular file, else when it is
\* not executable, and then no version probe is spawned; it succeeds
\* exactly when the path names an executable regular file.
C19_Construction ==
    Constructed =>
        LET path == PathStr(env.MIGRATORXPRESS_PATH)
            Raised(message) ==
                ret.raised /\ ret.error = MigratorXpressError(message \o path)
        IN  /\ ~binary_file.exists => Raised("MigratorXpress binary not found at: ")
            /\ binary_file.exists /\ ~binary_file.is_file =>
                  Raised("MigratorXpress path is not a file: ")
            /\ binary_file.exists /\ binary_file.is_file /\ ~binary_file.executable =>
                  Raised("MigratorXpress binary is not executable: ")
            /\ ret.raised => spawns = <<>> /\ command_builder = None
            /\ ~ret.raised <=>
                  binary_file.exists /\ binary_file.is_file /\ binary_file.executable
            /\ ~ret.raised => command_builder = [binary_path |-> path]

\* the path names a directory that is not executable either: the error
\* is that of the file test
C19_Witness ==
    /\ Constructed
    /\ binary_file = File(TRUE, FALSE, FALSE)
    /\ ret.raised
    /\ ret.error.message = "MigratorXpress path is not a file: MigratorXpress"
    /\ spawns = <<>>

\* the construction succeeded and spawned its version probe
C19_WitnessBuilt ==
    /\ Constructed
    /\ ~ret.raised
    /\ spawns = <<ProbeArgv("/opt/mx/MigratorXpress")>>


\* the six tools of the server
ToolNames ==
    {"preview_command", "execute_command", "validate_auth_file", "list_capabilities",
     "suggest_workflow", "get_version"}

\* the construction of the command builder raised the configuration error
ConfigurationError == Constructed /\ ret.raised

\* C20, as the claim states it: after a configuration error at startup
\* every call of one of the six tools is answered with an error, and no
\* command is built and no process spawned.  The tools that do not use the
\* command builder are served all the same, so this does not hold.
C20_NothingServed ==
    (ConfigurationError /\ request # None /\ request.name \in ToolNames) =>
        /\ startswith(response, "Error")
        /\ commands = <<>> /\ processes = <<>> /\ log_files = <<>>

\* after a configuration error the capabilities were listed
C20_WitnessServed ==
    /\ ConfigurationError
    /\ Called("list_capabilities")
    /\ startswith(response, "# MigratorXpress Capabilities\n\n## Source Databases")

-----------------------------------------------------------------------------
\* the fields a parameter set fails on: the fields whose own validation
\* failed or, when a model validator raised, the fields it tests
FailingFields(args) ==
    LET p == MigrationParams(args)
        named == {e.loc : e \in p.errors} \ {""}
        self == [f \in Fields |-> ValidateField(args, f).value]
    IN  IF p.ok THEN {}
        ELSE IF named # {} THEN named
        ELSE IF validate_task_list_values(self) # "ok" THEN {"task_list"}
        ELSE IF validate_string_booleans(self) # "ok"
        THEN {f \in {"compute_nbrows", "drop_tables_if_exists"} :
                 contains(validate_string_booleans(self), f)}
        ELSE {"license", "license_file"}

\* the preview request answered by this step violates the parameter model
InvalidPreview == Answers("preview_command") /\ ~MigrationParams(request'.arguments).ok

\* C21, as the claim states it: a preview request whose parameters violate
\* the parameter model is answered with a validation error that names a
\* failing field, no command is built or shown and no process is spawned.
\* The error of the task-list validator carries no field name, and a server
\* without a builder answers before it validates, so this does not hold.
C21_FieldNamed ==
    [][InvalidPreview =>
          /\ contains(response', "# Validation Error")
          /\ \E f \in FailingFields(request'.arguments) : contains(response', f)
          /\ commands' = commands /\ ~contains(response', "## Command:")
          /\ NothingRun]_vars

\* an unknown task was answered with a validation error whose line has an
\* empty field label and names no field
C21_WitnessNoField ==
    /\ Called("preview_command")
    /\ command_builder # None
    /\ FailingFields(request.arguments) = {"task_list"}
    /\ contains(response, "# Validation Error")
    /\ contains(response, "- ****: ")
    /\ ~contains(response, "task_list")
    /\ commands = <<>> /\ processes = <<>>

-----------------------------------------------------------------------------
\* the full commands for execution that the preview_command calls answered
\* so far returned
Previewed == {join(" ", Tokens(commands[k])) : k \in 1..Len(commands)}

\* C22, as the claim states it: execute_command spawns a process only for
\* a command string that an earlier preview_command call returned, so that
\* token 0 of the process is the configured binary.  The handler runs any
\* confirmed string that shlex can split, so this does not hold.
C22_OnlyPreviewed ==
    [][Answers("execute_command") /\ processes' # processes =>
          /\ request'.arguments["command"].v \in Previewed
          /\ processes'[Len(processes')].argv[1] = command_builder.binary_path]_vars

\* a process was spawned for a command line that no preview returned and
\* whose program is not the configured binary
C22_WitnessForeign ==
    /\ Executed
    /\ commands = <<>>
    /\ LastProcess.argv = <<"/bin/rm", "-rf", "/data dir">>
    /\ LastProcess.argv[1] # command_builder.binary_path

-----------------------------------------------------------------------------
\* the auth id is present in the document: a key of an object, or the
\* "id" of an entry of an array
Present(id, doc) ==
    IF doc.type = "dict" THEN id \in DOMAIN doc.items
    ELSE IF doc.type = "list"
    THEN \E i \in 1..Len(doc.v) :
            /\ doc.v[i].type = "dict"
            /\ "id" \in DOMAIN doc.v[i].items
            /\ doc.v[i].items["id"] = id
    ELSE FALSE

\* the auth ids the validate_auth_file request answered last asked for
RequiredIds == Get(request.arguments, "required_auth_ids", PyList(<<>>)).v

\* C23, as the claim states it: validate_auth_file reports OK only if the
\* path names a file that parses as JSON and every required auth id is
\* present in the document, and for a document of any kind it reports an
\* issue for each id that is missing.  A document that is neither an object
\* nor an array is reported OK whatever ids are required, so this does not
\* hold.
C23_AuthFile ==
    Called("validate_auth_file") =>
        /\ contains(response, "# Auth File Validation - OK") =>
              /\ auth_file.kind = "document"
              /\ \A i \in 1..Len(RequiredIds) : Present(RequiredIds[i], auth_file.doc)
        /\ auth_file.kind = "document" =>
              \A i \in 1..Len(RequiredIds) :
                 ~Present(RequiredIds[i], auth_file.doc) =>
                    contains(response, "- Missing auth_id: '" \o RequiredIds[i] \o "'")

\* a file holding a JSON string was reported OK, with the required ids
\* listed as present
C23_WitnessScalar ==
    /\ Called("validate_auth_file")
    /\ auth_file = [kind |-> "document", doc |-> PyStr("source_db")]
    /\ RequiredIds = <<"source_db", "target_db">>
    /\ contains(response, "# Auth File Validation - OK")
    /\ contains(response, "**Entries**: 0")
    /\ contains(response, "**Required auth_ids present**: source_db, target_db")

-----------------------------------------------------------------------------
(* Specification of a session: a server answers several tool calls in a    *)
(* row, among them the execution of the commands it previewed.             *)

\* tool calls answered in one session
MaxSessionCalls == 2

\* the parameter sets previewed in a session: the minimal one, with a
\* license key, and with values that hold a space, a quote or a backslash
SessionRequests ==
    {MinimalArguments,
     MinimalArguments @@ ("license" :> PyStr("KEY-123")),
     MinimalArguments @@ ("source_schema_name" :> PyStr("my schema")),
     MinimalArguments @@ ("include_tables" :> PyStr("it's")),
     MinimalArguments @@ ("include_tables" :> PyStr("a\\b")),
     MinimalArguments @@ ("task_list" :> PyList(<<"transfer">>))
        @@ ("fk_mode" :> PyStr("trusted"))}

\* the full command of a preview of an earlier session
EarlierPreview ==
    join(" ", build_command(PathStr(env.MIGRATORXPRESS_PATH),
                            MigrationParams(MinimalArguments
                                @@ ("license" :> PyStr("KEY-456"))).model))

\* the confirmed execute_command calls of a session: of a command that a
\* preview returned
SessionExecutions ==
    {("command" :> PyStr(c)) @@ ("confirmation" :> PyBool(TRUE)) :
        c \in Previewed \cup {EarlierPreview}}

\* the processes of a session complete, and their logs are saved
SessionRuns == {r \in Runs : r.kind = "completed" /\ r.returncode >= 0}

SessionLoggings == {l \in Loggings : l.kind = "saved"}

\* the registry of the release, and a registry without entries, for which
\* the capabilities are empty and every requested task or mode is unknown
SessionRegistries == {{str(Version(0, 6, 24))}, {}}

InitSession ==
    ServerStarts({e \in Environs : "MIGRATORXPRESS_PATH" \in DOMAIN e},
                 {File(TRUE, TRUE, TRUE), File(FALSE, FALSE, FALSE)}, SessionRegistries)

SessionPreview == PreviewOf(SessionRequests, MaxSessionCalls)

SessionExecute ==
    ExecuteOf(SessionExecutions, SessionRuns, SessionLoggings, MaxSessionCalls)

SessionGetVersion == GetVersionOf(MaxSessionCalls)

NextSession ==
    \/ Startup
    \/ SessionPreview
    \/ SessionExecute
    \/ SessionGetVersion

SpecSession == InitSession /\ [][NextSession]_vars

-----------------------------------------------------------------------------
\* the commands built by the previews answered so far whose full command
\* for execution is the string
BuiltAs(string) == {k \in 1..Len(commands) : join(" ", Tokens(commands[k])) = string}

\* C24, as the claim states it: when execute_command is given, confirmed,
\* the full command that a preview returned, the process it spawns has the
\* tokens of build_command(params), one for one.  The string is split by
\* shlex, which takes a space in a value for a separator, drops a
\* backslash and rejects an unpaired quote, so this does not hold.
C24_OriginalTokens ==
    [][Answers("execute_command") =>
          \A k \in BuiltAs(request'.arguments["command"].v) :
             /\ Len(processes') = Len(processes) + 1
             /\ processes'[Len(processes')].argv = Tokens(commands[k])]_vars

\* the command previewed for a schema name with a space was executed with
\* the name split in two tokens
C24_WitnessSplit ==
    /\ Executed
    /\ \E k \in BuiltAs(request.arguments["command"].v) :
          /\ \E i \in 1..Len(commands[k]) : commands[k][i].tok = "my schema"
          /\ LastProcess.argv # Tokens(commands[k])
          /\ Len(LastProcess.argv) = Len(commands[k]) + 1
          /\ \E i \in 1..Len(LastProcess.argv) - 1 :
                LastProcess.argv[i] = "my" /\ LastProcess.argv[i + 1] = "schema"

-----------------------------------------------------------------------------
(* C25 and C30: the structure of the display.                              *)

\* the separator of the parts: a backslash at the end of the line, and the
\* next line indented by two spaces
Continuation == " \\\n  "

\* the value holds a whitespace character
HasWhitespace(v) == \E i \in 1..Len(v) : IsSpace(SubSeq(v, i, i))

\* the parts the claim describes for the tokens of d from index i on: a
\* dash-prefixed token and the token after it, if that one has no dash,
\* form one part, with the value in double quotes if it holds whitespace;
\* any other token is a part of its own
RECURSIVE LogicalUnits(_, _)
LogicalUnits(d, i) ==
    IF i > Len(d) THEN <<>>
    ELSE IF i < Len(d) /\ startswith(d[i], "-") /\ ~startswith(d[i + 1], "-")
    THEN <<d[i] \o " " \o (IF HasWhitespace(d[i + 1])
                            THEN "\"" \o d[i + 1] \o "\"" ELSE d[i + 1])>>
         \o LogicalUnits(d, i + 2)
    ELSE <<d[i]>> \o LogicalUnits(d, i + 1)

\* the display the claim describes for the list d
DisplayOf(d) == join(Continuation, <<d[1]>> \o LogicalUnits(d, 2))

\* C25, as the claim states it: the display is the binary path and then
\* one part for each logical unit, joined by the continuation separator,
\* with a value in double quotes whenever it holds whitespace; with
\* mask=True the units are those of the masked list.  The code tests the
\* value for a space only, so a value with a tab is not quoted and this
\* does not hold.
C25_DisplayUnits ==
    [][display' # display =>
          /\ display'.clear = DisplayOf(heap'[command])
          /\ display'.masked = DisplayOf(heap'[Len(heap')])]_vars

\* a command whose log directory holds a tab and no space has been
\* formatted, and the value is shown without quotes
C25_WitnessTab ==
    /\ display # None /\ arguments # None
    /\ params.model.log_dir = PyStr("/my\tlogs")
    /\ contains(display.clear, "--log_dir /my\tlogs")
    /\ ~contains(display.clear, "\"")

-----------------------------------------------------------------------------
\* the names of the files of the log directory
LogPaths == {log_files[i].path : i \in 1..Len(log_files)}

\* what the file holds: open(log_file, "w") truncates, so the record
\* written last under the name
LogFile(path) ==
    log_files[CHOOSE i \in 1..Len(log_files) :
                 /\ log_files[i].path = path
                 /\ \A j \in 1..Len(log_files) : log_files[j].path = path => j <= i]

\* the record of the process is the content of a file of the directory
Kept(i) ==
    \E path \in LogPaths :
       /\ LogFile(path).command_line = join(" ", Masked(processes[i].argv))
       /\ LogFile(path).return_code = processes[i].run.returncode
       /\ LogFile(path).stdout = processes[i].run.stdout
       /\ LogFile(path).stderr = processes[i].run.stderr

\* the executions that completed and whose log was saved
Logged == {i \in 1..Len(processes) :
              processes[i].run.kind = "completed" /\ processes[i].logging.kind = "saved"}

\* C26, as the claim states it: the log directory holds one file for each
\* completed execution whose log was saved, with the masked command line,
\* the return code and the output of that execution, and no record is
\* overwritten.  The file name is the time of the write to the second and
\* the file is opened for writing, so two executions that end within one
\* second share a file and this does not hold.
C26_OwnLogFile ==
    /\ Cardinality(LogPaths) = Cardinality(Logged)
    /\ \A i \in Logged : Kept(i)
    /\ \A path \in LogPaths : \A k \in LicenseKeys :
          ~contains(LogFile(path).command_line, k)

\* two executions that ended differently were logged within one second:
\* the directory holds one file, with the record of the second execution
C26_WitnessOverwritten ==
    /\ Cardinality(Logged) = 2 /\ Cardinality(LogPaths) = 1
    /\ processes[1].run.returncode = 0 /\ processes[2].run.returncode = 1
    /\ ~Kept(1) /\ Kept(2)
    /\ log_files[1].path = "logs/migratorxpress_20261104_120000.log"

-----------------------------------------------------------------------------
\* the preview request answered by this step is valid, on a server with a
\* builder
ValidPreview ==
    /\ Answers("preview_command")
    /\ command_builder # None
    /\ MigrationParams(request'.arguments).ok

\* the warnings of the compatibility check for the request answered last
Warnings ==
    check_version_compatibility(request.arguments,
        resolve(SORTED_VERSIONS, detected_version), detected_version)

\* C27: for a valid preview request the command built is
\* build_command(params) and the response shows it in full, whatever
\* warnings the compatibility check gives: it is the command built after
\* the warnings of the check under any of the registries, and the step leaves
\* the registry, the detected version and so the resolved capabilities as
\* they were.
C27_Advisory ==
    [][ValidPreview =>
          \A cmd \in {build_tagged(command_builder.binary_path,
                                   MigrationParams(request'.arguments).model)} :
          \A shown \in {join(" ", Tokens(cmd))} :
             /\ commands' = Append(commands, cmd)
             /\ endswith(response', "## Full command for execution:\n" \o Fence \o "\n"
                                      \o shown \o "\n" \o Fence)
             /\ \A keys \in SessionRegistries :
                   BuildChecked(command_builder, MigrationParams(request'.arguments).model,
                       check_version_compatibility(request'.arguments,
                           resolve(SortedVersions(keys), detected_version),
                           detected_version)) = cmd
             /\ SORTED_VERSIONS' = SORTED_VERSIONS
             /\ detected_version' = detected_version
             /\ detection_done' = detection_done]_vars

\* a valid preview request with a task list and a foreign-key mode was
\* answered with compatibility warnings, and its command was built with
\* both
C27_Witness ==
    /\ Called("preview_command")
    /\ Len(Warnings) = 2
    /\ contains(response, "## Version Compatibility Warnings\n- Task 'transfer' is not known")
    /\ Len(commands) = 1
    /\ \E i, j \in 1..Len(commands[1]) :
          commands[1][i].tok = "--task_list" /\ commands[1][j].tok = "--fk_mode"
    /\ contains(response, "--task_list transfer")

-----------------------------------------------------------------------------
\* the version lines of a get_version response for the detected version
VersionLines(detected) ==
    "**Version**: " \o (IF detected # None THEN join("", str(detected)) ELSE "Unknown")
    \o "\n**Detected**: " \o (IF detected # None THEN "Yes" ELSE "No") \o "\n"

\* C28: a version probe is spawned only while the module is loaded and
\* only for a binary that passed validation; once the builder exists
\* detection is marked done; no request spawns a probe or changes the
\* detected version; and every get_version call reports the version
\* detected at initialisation, with 'Detected: Yes' exactly when a version
\* is reported.
C28_ProbeAtInit ==
    [][/\ spawns' # spawns =>
             /\ phase = "startup"
             /\ validate_binary(binary_file, PathStr(env.MIGRATORXPRESS_PATH)) = "ok"
       /\ command_builder' # None => detection_done'
       /\ phase = "serving" =>
             /\ detected_version' = detected_version
             /\ detection_done' = detection_done
       /\ (Answers("get_version") /\ command_builder # None) =>
             \A lines \in {VersionLines(detected_version)} :
                /\ contains(response', lines)
                /\ contains(lines, "Unknown") <=> contains(lines, "Detected**: No")]_vars

\* get_version was answered twice by a server whose startup probe found no
\* version, and one probe in all was spawned
C28_Witness ==
    /\ Called("get_version") /\ request.n = 2
    /\ command_builder # None
    /\ detected_version = None /\ detection_done
    /\ Len(spawns) = 1
    /\ contains(response, "**Version**: Unknown\n**Detected**: No")

\* get_version was answered by a server whose startup probe found the
\* version
C28_WitnessDetected ==
    /\ Called("get_version")
    /\ Len(spawns) = 1
    /\ contains(response, "**Version**: 0.6.24\n**Detected**: Yes")

-----------------------------------------------------------------------------
(* Specification of concurrent callers: several threads call detect() or   *)
(* read capabilities on one fresh VersionDetector.  The detector has no    *)
(* lock, so the threads interleave between the statements of detect():     *)
(* the test of _detection_done, the assignment to it, the probe, and the   *)
(* assignment of the parsed version.                                       *)

\* threads that use the detector
MaxCallers == 2

\* what a thread calls
CallerOps == {"detect", "capabilities"}

\* a thread about to make its call
Calling(op) ==
    [op |-> op, pc |-> IF op = "detect" THEN "detect" ELSE "capabilities",
     outcome |-> None, value |-> None]

InitConcurrent ==
    /\ \E keys \in {{str(Version(0, 6, 24))}, {str(Version(0, 6, 24)), str(Version(0, 7, 0))}} :
          SORTED_VERSIONS = SortedVersions(keys)
    /\ detection_done = FALSE /\ detected_version = None /\ spawns = <<>>
    /\ ncalls = 0 /\ ret = None /\ first_ret = None
    /\ callers \in [1..MaxCallers -> {Calling(op) : op \in CallerOps}]
    /\ VersionIdle /\ BuilderIdle /\ DisplayIdle /\ ServerIdle

\* thread c moves on to pc, with the other fields of its record as given
Moves(c, pc, outcome, value) ==
    /\ callers' = [callers EXCEPT ![c] = [op |-> callers[c].op, pc |-> pc,
                                          outcome |-> outcome, value |-> value]]
    /\ UNCHANGED <<SORTED_VERSIONS, ncalls, ret, first_ret>>
    /\ UNCHANGED versionVars /\ UNCHANGED builderVars
    /\ UNCHANGED displayVars /\ UNCHANGED serverVars

\* detect() returns value to thread c: to the caller of detect(), or to the
\* capabilities property, which goes on to resolve
Returns(c, value) ==
    IF callers[c].op = "detect"
    THEN Moves(c, "returned", callers[c].outcome, value)
    ELSE Moves(c, "resolve", callers[c].outcome, None)

\* capabilities: if not self._detection_done: self.detect()
ReadCapabilities(c) ==
    /\ callers[c].pc = "capabilities"
    /\ Moves(c, IF detection_done THEN "resolve" ELSE "detect", None, None)
    /\ UNCHANGED <<detection_done, detected_version, spawns>>

\* detect: if self._detection_done:
CheckDone(c) ==
    /\ callers[c].pc = "detect"
    /\ Moves(c, IF detection_done THEN "cached" ELSE "unmarked", None, None)
    /\ UNCHANGED <<detection_done, detected_version, spawns>>

\* detect: return self._detected_version (the cached value)
ReturnCached(c) ==
    /\ callers[c].pc = "cached"
    /\ Returns(c, detected_version)
    /\ UNCHANGED <<detection_done, detected_version, spawns>>

\* detect: self._detection_done = True
SetDone(c) ==
    /\ callers[c].pc = "unmarked"
    /\ detection_done' = MarkDone(FALSE)
    /\ Moves(c, "marked", None, None)
    /\ UNCHANGED <<detected_version, spawns>>

\* detect: subprocess.run([binary, "--version", "--no_banner"], ...), which
\* ends in one of the ways of a probe
RunProbe(c) ==
    /\ callers[c].pc = "marked"
    /\ spawns' = Append(spawns, ProbeArgv(BinaryPath))
    /\ \E outcome \in StartupProbes : Moves(c, "probing", outcome, None)
    /\ UNCHANGED <<detection_done, detected_version>>

\* detect: the output is searched, the version found is assigned, and
\* self._detected_version is returned
AssignVersion(c) ==
    /\ callers[c].pc = "probing"
    /\ \E r \in {detect(FALSE, detected_version, callers[c].outcome)} :
          /\ detected_version' = r.version
          /\ Returns(c, r.value)
    /\ UNCHANGED <<detection_done, spawns>>

\* capabilities: the entry for self._detected_version
Resolve(c) ==
    /\ callers[c].pc = "resolve"
    /\ Moves(c, "returned", callers[c].outcome, resolve(SORTED_VERSIONS, detected_version))
    /\ UNCHANGED <<detection_done, detected_version, spawns>>

NextConcurrent ==
    \/ \E c \in DOMAIN callers : ReadCapabilities(c)
    \/ \E c \in DOMAIN callers : CheckDone(c)
    \/ \E c \in DOMAIN callers : ReturnCached(c)
    \/ \E c \in DOMAIN callers : SetDone(c)
    \/ \E c \in DOMAIN callers : RunProbe(c)
    \/ \E c \in DOMAIN callers : AssignVersion(c)
    \/ \E c \in DOMAIN callers : Resolve(c)

SpecConcurrent == InitConcurrent /\ [][NextConcurrent]_vars

\* every thread has its result
AllReturned == callers # <<>> /\ \A c \in DOMAIN callers : callers[c].pc = "returned"

\* what a call made now, with nothing else running, would return
Settled(op) ==
    IF op = "detect" THEN detected_version ELSE resolve(SORTED_VERSIONS, detected_version)

\* C29, as the claim states it: with overlapping callers on a fresh
\* detector the probe is spawned at most once, and every caller got the
\* value that is cached in the end, so none got None (or the fallback
\* capabilities) for a binary whose probe found a version.  detect() tests
\* and sets its flag without a lock and sets it before the probe has run,
\* so this does not hold.
C29_ConcurrentDetect ==
    /\ Len(spawns) <= 1
    /\ AllReturned => \A c \in DOMAIN callers : callers[c].value = Settled(callers[c].op)

\* one probe was spawned and found the version, and a caller of detect()
\* that came while it ran got None
C29_WitnessUndetected ==
    /\ AllReturned
    /\ Len(spawns) = 1
    /\ detected_version = Version(0, 6, 24)
    /\ \E c \in DOMAIN callers : callers[c].op = "detect" /\ callers[c].value = None

\* two threads passed the test of the flag before either set it, and each
\* spawned a probe
C29_WitnessTwoProbes == AllReturned /\ Len(spawns) = 2

-----------------------------------------------------------------------------
(* C30: the display read back.                                             *)

\* the positions from i on at which sub occurs in s
Occurrences(s, sub, i) ==
    {k \in i..Len(s) - Len(sub) + 1 : SubSeq(s, k, k + Len(sub) - 1) = sub}

\* the least number of a non-empty set of numbers
Least(S) == CHOOSE k \in S : \A other \in S : k <= other

\* the parts of text s from position i on, as separated by sep
RECURSIVE SplitFrom(_, _, _)
SplitFrom(s, sep, i) ==
    IF Occurrences(s, sep, i) = {} THEN <<SubSeq(s, i, Len(s))>>
    ELSE CHOOSE parts \in {<<SubSeq(s, i, k - 1)>> \o SplitFrom(s, sep, k + Len(sep)) :
                                k \in {Least(Occurrences(s, sep, i))}} : TRUE

\* a value without the double quotes around it, if it has them
Unquoted(v) ==
    IF Len(v) >= 2 /\ startswith(v, "\"") /\ endswith(v, "\"")
    THEN SubSeq(v, 2, Len(v) - 1) ELSE v

\* the tokens a part of the display stands for: its flag and, after the
\* space, its value; a part without a space is one token
ReadPart(part) ==
    IF Occurrences(part, " ", 1) = {} THEN <<part>>
    ELSE CHOOSE read \in {<<SubSeq(part, 1, k - 1), Unquoted(SubSeq(part, k + 1, Len(part)))>> :
                               k \in {Least(Occurrences(part, " ", 1))}} : TRUE

\* the tokens of the parts from index i on
RECURSIVE ReadParts(_, _)
ReadParts(parts, i) ==
    IF i > Len(parts) THEN <<>> ELSE ReadPart(parts[i]) \o ReadParts(parts, i + 1)

\* the token sequence a display stands for: the binary path, then the
\* tokens of each part in order
ReadDisplay(text) ==
    CHOOSE read \in {<<parts[1]>> \o ReadParts(parts, 2) :
                         parts \in {SplitFrom(text, Continuation, 1)}} : TRUE

\* C30, as the claim states it: reading the parts of the display in order,
\* each part as its flag and its unquoted value, gives back the tokens of
\* the command, each once and in order (those of the masked list with
\* mask=True), and the list passed in is not modified.  A token with a
\* space that is not the value of a flag is shown as it is, so it reads as
\* a flag and a value, and this does not hold.
C30_ReadsBack ==
    [][display' # display =>
          /\ ReadDisplay(display'.clear) = heap'[command]
          /\ ReadDisplay(display'.masked) = heap'[Len(heap')]
          /\ command' = command /\ heap'[command] = heap[command]]_vars

\* a command whose second suffix holds a space has been formatted: the
\* suffix is a part of its own, without quotes, and the display reads as
\* one token more than the command has
C30_WitnessStandalone ==
    /\ display # None /\ arguments # None
    /\ params.model.forced_int_id_suffixes = PyList(<<"_ID", "a b">>)
    /\ contains(display.clear, "--forced_int_id_suffixes _ID" \o Continuation \o "a b")
    /\ Len(ReadDisplay(display.clear)) = Len(heap[command]) + 1

=============================================================================
